---- MODULE Spec2Model ----
(***************************************************************************)
(* Registration lifecycle and invoicing engine of the UCMAS portal.        *)
(*                                                                         *)
(* The database is modelled as PostgreSQL under READ COMMITTED, the        *)
(* production backend of settings.py: a transaction's writes are buffered  *)
(* in its request record and become visible at commit; SELECT ... FOR      *)
(* UPDATE and UPDATE take row locks that are held until commit or          *)
(* rollback; a statement that needs a row locked by another transaction    *)
(* waits, and re-evaluates its WHERE clause on the committed row when the  *)
(* lock is released; a cycle of waiting transactions is broken by the      *)
(* server aborting one of them.                                            *)
(*                                                                         *)
(* Money is counted in hundredths (a DecimalField with decimal_places=2),  *)
(* the VAT rate in ten-thousandths (decimal_places=4).                     *)
(***************************************************************************)
EXTENDS Integers, Sequences, FiniteSets, TLC

\* ------------------------------------------------------------------ bounds
\* Registrations / enrollments in the tables.
NRows == 3
\* Admin "issue invoice" requests started in one behaviour.
MaxRequests == 2
\* Times the calendar year changes in one behaviour.
YearSpan == 1

\* ------------------------------------------------------- program constants
\* vat_rate=Decimal("0.1500"), the default of both issuance functions.
DefaultVatRate == 1500
\* Invoice.vat_rate has decimal_places=4.
RateScale == 10000
\* InvoiceItem.description = CharField(max_length=255).
DescriptionMaxLen == 255
\* f"{invoice_type}-{year}-{seq.last_number:06d}"
PadWidth == 6
\* f"{prefix}{next_num:06d}"
RegistrationPadWidth == 6
\* len("Competition Registration: ") and len(" - ") of the event description.
EventDescPrefixLen == 26
EventDescSepLen == 3
\* len("Course Enrollment: "), len(" (Level ") + len(")") of the course one.
CourseDescPrefixLen == 19
CourseDescSuffixLen == 9

Rows == 1..NRows
Procs == {"a1", "a2"}
InvoiceTypes == {"COURSE", "EVENT"}
Years == 0..YearSpan
NoInvoice == [id |-> 0]
NoKey == <<"", 0>>
\* Event.deadline is NULL.
NoDeadline == -1
\* Invoice.paid_at is NULL.
NotPaid == -1
\* The organizations, and the portal users: role ORG_MANAGER or ORG_STAFF
\* and an organization (User.role, User.organization).
Orgs == 1..2
Users == [role : {"ORG_MANAGER", "ORG_STAFF"}, org : Orgs]
\* An Organization as the admin registers it: a name (texts are numbered),
\* vat_number and national_address blank (0).
Registered == [name_en |-> 1, vat_number |-> 0, national_address |-> 0]
NoUser == [role |-> "", org |-> 0]

\* CourseEnrollment.STATUS and EventRegistration.STATUS.
CourseStatus ==
  {"DRAFT", "SUBMITTED", "ACCEPTED", "REJECTED", "PENDING_PAYMENT", "PAID",
   "ENROLLED", "COMPLETED", "DROPPED"}
EventStatus ==
  {"DRAFT", "SUBMITTED", "PENDING_PAYMENT", "PAID", "ACCEPTED", "REJECTED"}

VARIABLES
  row,          \* row -> [kind, org, target]: the table, organization and course/event of a row
  status,       \* row -> status
  invoice,      \* row -> id of the linked Invoice, 0 for NULL
  fee_amount,   \* row -> EventRegistration.fee_amount (the fee snapshot)
  submitted,    \* row -> the user in submitted_by (written with submitted_at), NoUser for NULL
  catalog,      \* <<kind, target>> -> [fee, code_len, name_len, level_len] of the Course / Event
  invoices,     \* committed Invoice records
  items,        \* committed InvoiceItem records
  last_number,  \* <<invoice_type, year>> -> InvoiceSequence.last_number (0: no row yet)
  seller_active,\* some CompanyProfile has is_active=True
  year,         \* timezone.now().year, counted from the first year of the behaviour
  next_id,      \* the Invoice id sequence (never rolled back)
  req,          \* process -> the admin request it runs, with its open transaction
  started,      \* admin requests started so far
  handed,       \* every <<invoice_type, year, number>> next_invoice_no has returned, in order
  students,     \* student id -> the Student row [org, no, level], NoStudent when none is stored
  organizations \* organization -> [name_en, vat_number, national_address] of the Organization

dbVars == <<status, invoice, fee_amount, submitted, invoices, items, last_number>>
envVars == <<row, catalog, seller_active, year, students, organizations>>
vars ==
  <<row, status, invoice, fee_amount, submitted, catalog, invoices, items,
    last_number, seller_active, year, next_id, req, started, handed, students,
    organizations>>

\* ------------------------------------------------------------- arithmetic
\* Decimal.quantize under the default context (ROUND_HALF_EVEN) of the
\* non-negative rational n/d, to an integer.
QuantizeHalfEven(n, d) ==
  LET q == n \div d
      r == n % d
  IN  IF 2 * r > d THEN q + 1
      ELSE IF 2 * r = d THEN q + (q % 2)
      ELSE q

\* InvoiceItem.save: line_subtotal = (Decimal(qty) * unit_price).quantize(0.01)
LineSubtotal(qty, unit_price) == QuantizeHalfEven(qty * unit_price, 1)

\* InvoiceItem.save: line_vat = (line_subtotal * vat_rate).quantize(0.01)
LineVat(line_subtotal, vat_rate) ==
  QuantizeHalfEven(line_subtotal * vat_rate, RateScale)

\* InvoiceItem.save: line_total = (line_subtotal + line_vat).quantize(0.01)
LineTotal(line_subtotal, line_vat) ==
  QuantizeHalfEven(line_subtotal + line_vat, 1)

RECURSIVE SumField(_, _)
\* Sum("<field>") over a set of item records.
SumField(S, field) ==
  IF S = {} THEN 0
  ELSE LET x == CHOOSE y \in S : TRUE IN x[field] + SumField(S \ {x}, field)

\* ------------------------------------------------------ invoice numbers
RECURSIVE Digits(_)
\* The decimal digits of n, most significant first.
Digits(n) == IF n < 10 THEN <<n>> ELSE Append(Digits(n \div 10), n % 10)

RECURSIVE ZeroPad(_, _)
\* format(n, "06d"): zeros on the left up to the width, never a cut.
ZeroPad(ds, width) == IF Len(ds) >= width THEN ds ELSE ZeroPad(<<0>> \o ds, width)

\* f"{invoice_type}-{year}-{seq.last_number:06d}"
FormatInvoiceNo(invoice_type, yr, n) ==
  [type |-> invoice_type, year |-> yr, seq |-> ZeroPad(Digits(n), PadWidth)]

RECURSIVE FromDigits(_)
\* The number a digit string reads as.
FromDigits(ds) ==
  IF Len(ds) = 0 THEN 0
  ELSE 10 * FromDigits(SubSeq(ds, 1, Len(ds) - 1)) + ds[Len(ds)]

\* The sequence part of an invoice's number.
SeqPart(inv) == FromDigits(inv.invoice_no.seq)
BucketOf(inv) == <<inv.invoice_no.type, inv.invoice_no.year>>

\* ------------------------------------------------------------ the tables
\* The description InvoiceItem gets: f"Course Enrollment: {course.name} (Level
\* {course.level})" or f"Competition Registration: {event.code} - {event.name}".
DescriptionLen(kind, c) ==
  IF kind = "COURSE"
  THEN CourseDescPrefixLen + c.name_len + CourseDescSuffixLen + c.level_len
  ELSE EventDescPrefixLen + c.code_len + EventDescSepLen + c.name_len

\* Mutant of Eligible: the filter forgets status="PENDING_PAYMENT".
EligibleAnyStatus(S) == {r \in S : invoice[r] = 0}

\* Mutant of Eligible: the filter forgets invoice__isnull=True.
EligibleAnyInvoice(S) == {r \in S : status[r] = "PENDING_PAYMENT"}

\* .filter(status="PENDING_PAYMENT", invoice__isnull=True), on the committed rows.
Eligible(S) == {r \in S : status[r] = "PENDING_PAYMENT" /\ invoice[r] = 0}

\* Row r is locked FOR UPDATE by a transaction other than p's.
LockedByOther(p, r) == \E q \in Procs \ {p} : r \in req[q].locked

Locked(r) == \E q \in Procs : r \in req[q].locked

\* grouped.setdefault((e.organization_id, e.course_id), []).append(e): the
\* buckets of a selection, each with the organization and the course/event
\* object the action reads with the rows (select_related).
\* Mutant of BucketKey: the rows are grouped by organization only.
BucketKeyOrgOnly(r) == <<row[r].org, 1>>

BucketKey(r) == <<row[r].org, row[r].target>>
\* Mutant of BuyerSnapshot: the VAT number of the buyer is left blank.
BuyerSnapshotNoVat(org) ==
  [buyer_name |-> org.name_en, buyer_vat_number |-> 0,
   buyer_national_address |-> org.national_address]

\* buyer_name=org.name_en, buyer_vat_number=getattr(org, "vat_number", "") or
\* "", buyer_national_address=getattr(org, "national_address", "") or "".
BuyerSnapshot(org) ==
  [buyer_name |-> org.name_en, buyer_vat_number |-> org.vat_number,
   buyer_national_address |-> org.national_address]

Bucket(S, kind, k) ==
  LET c == catalog[<<kind, k[2]>>]
  IN  [rows |-> {r \in S : BucketKey(r) = k}, org |-> k[1], target |-> k[2],
       fee |-> c.fee, desc_len |-> DescriptionLen(kind, c),
       buyer |-> organizations[k[1]]]
Grouped(S, kind) == {Bucket(S, kind, k) : k \in {BucketKey(r) : r \in S}}

\* The orders in which a dict of these buckets can be walked.
Orders(B) ==
  {o \in [1..Cardinality(B) -> B] : \A i, j \in 1..Cardinality(B) : o[i] = o[j] => i = j}

IdleReq ==
  [pc |-> "idle", kind |-> "", sel |-> {}, groups |-> 0, todo |-> <<>>,
   locked |-> {}, seq_key |-> NoKey, seq_no |-> 0, inv |-> NoInvoice,
   items |-> {}, created |-> 0, msg |-> ""]

InFlight(p) == req[p].pc \in {"exists", "number", "items", "link"}

\* An exception leaves transaction.atomic(): the transaction is rolled back,
\* its locks are released and the request ends with the error.
Rollback(p, error) ==
  req' = [req EXCEPT ![p] =
            [IdleReq EXCEPT !.pc = "failed", !.msg = error]]

\* --------------------------------------------------------- InvoiceItem.save
\* full_clean(): clean() wants the link that matches the invoice's type and
\* no other; the description must fit its column.
FullCleanOk(inv, link_kind, desc_len) ==
  /\ inv.invoice_type = link_kind
  /\ desc_len <= DescriptionMaxLen

InvoiceItemSave(inv, r, link_kind, qty, unit_price) ==
  LET sub == LineSubtotal(qty, unit_price)
      vat == LineVat(sub, inv.vat_rate)
  IN  [invoice |-> inv.id, row |-> r, link |-> link_kind,
       course_enrollment |-> IF link_kind = "COURSE" THEN r ELSE 0,
       event_registration |-> IF link_kind = "EVENT" THEN r ELSE 0, qty |-> qty,
       unit_price |-> unit_price, line_subtotal |-> sub, line_vat |-> vat,
       line_total |-> LineTotal(sub, vat)]

\* Mutant of recalc_invoice_totals: the total is computed from the subtotal
\* and the rate instead of summed over the items.
recalc_from_rate(inv, its) ==
  LET sub == SumField(its, "line_subtotal")
      vat == LineVat(sub, inv.vat_rate)
  IN  [inv EXCEPT !.subtotal = sub, !.vat_amount = vat, !.total = sub + vat]

\* recalc_invoice_totals: the three rollups are the sums over invoice.items.
recalc_invoice_totals(inv, its) ==
  [inv EXCEPT !.subtotal = SumField(its, "line_subtotal"),
              !.vat_amount = SumField(its, "line_vat"),
              !.total = SumField(its, "line_total")]

\* Mutant of SeqKey: one counter per year for both invoice types.
SeqKeyAnyType(invoice_type, yr) == <<"COURSE", yr>>

\* InvoiceSequence.objects.select_for_update().get_or_create(
\*   invoice_type=invoice_type, year=year): the counter row of a number.
SeqKey(invoice_type, yr) == <<invoice_type, yr>>

\* Mutant of next_invoice_no: the counter's value is returned before the
\* increment.
next_invoice_no_stale(key) == last_number[key]

\* next_invoice_no: get_or_create the counter row with last_number 0, add one.
next_invoice_no(key) == last_number[key] + 1

\* Mutant of save_last_number: next_invoice_no's atomic block is a transaction
\* of its own, so the increment commits when the block ends.
save_last_number_autocommit(key, n) == [last_number EXCEPT ![key] = n]

\* seq.save(update_fields=["last_number"]) inside the caller's transaction
\* (the atomic block of next_invoice_no is nested): the committed counter
\* keeps its value until the issuance commits.
save_last_number(key, n) == last_number

\* Mutant of UpdateInvoice: the UPDATE has lost its WHERE clause.
UpdateInvoiceEveryRow(matched, id) == [r \in Rows |-> id]

\* Mutant of UpdateInvoice: the rows are not linked to the invoice.
UpdateInvoiceSkipped(matched, id) == invoice

\* enrollments.update(invoice=inv) / regs.update(invoice=inv): every row the
\* filter matches when the UPDATE runs gets the link.
UpdateInvoice(matched, id) ==
  [r \in Rows |-> IF r \in matched THEN id ELSE invoice[r]]

\* Mutant of SeqLockedByOther: the counter row is read without
\* select_for_update().
SeqLockedByNobody(p, key) == FALSE

\* The counter row of key is locked by a transaction other than p's.
SeqLockedByOther(p, key) == \E q \in Procs \ {p} : req[q].seq_key = key

\* ------------------------------------------- the admin "issue invoice" action
\* CourseEnrollmentAdmin.issue_course_invoice / EventRegistrationAdmin.
\* issue_event_invoice up to the loop over the buckets: the selected rows
\* without an invoice are grouped by (organization, course|event).
AdminIssueStart(p, kind, S) ==
  /\ req[p].pc \in {"idle", "done", "failed"}
  /\ started < MaxRequests
  /\ S # {}
  /\ \A r \in S : row[r].kind = kind /\ status[r] # "NONE"
  /\ LET qs == {r \in S : invoice[r] = 0}
     IN  IF qs = {}
         THEN req' = [req EXCEPT ![p] =
                        [IdleReq EXCEPT !.pc = "done",
                           !.msg = "Nothing to invoice (selected already have invoices)."]]
         ELSE \E order \in Orders(Grouped(qs, kind)) :
                req' = [req EXCEPT ![p] =
                          [IdleReq EXCEPT !.pc = "exists", !.kind = kind, !.sel = S,
                             !.groups = Len(order), !.todo = order]]
  /\ started' = started + 1
  /\ UNCHANGED <<dbVars, envVars, next_id, handed>>

\* Mutant of HasActiveSeller: a seller is found whatever is_active says.
HasActiveSellerAlways == TRUE

\* get_active_seller: CompanyProfile.objects.filter(is_active=True) has a row.
HasActiveSeller == seller_active

\* Mutant of ExistsLock: exists() reads the rows without FOR UPDATE.
ExistsNoLock(r) == {}

\* The row .exists() locks: the queryset is select_for_update(), so the
\* SELECT ... LIMIT 1 it runs is FOR UPDATE.
ExistsLock(r) == {r}

\* with transaction.atomic(): the issuance function up to get_active_seller().
\* .exists() runs SELECT ... LIMIT 1 FOR UPDATE on the eligible rows of the
\* bucket: it locks one of them, or finds none and raises "Nothing to invoice".
IssueExists(p) ==
  /\ req[p].pc = "exists"
  /\ LET elig == Eligible(Head(req[p].todo).rows)
     IN  IF elig = {}
         THEN Rollback(p, "ValueError: Nothing to invoice.")
         ELSE \E r \in elig :
                /\ ~LockedByOther(p, r)
                /\ IF ~HasActiveSeller
                   THEN Rollback(p, "ValueError: No active CompanyProfile found.")
                   ELSE req' = [req EXCEPT ![p].pc = "number", ![p].locked = ExistsLock(r)]
  /\ UNCHANGED <<dbVars, envVars, next_id, started, handed>>

\* Invoice.objects.create(invoice_no=next_invoice_no(kind), ...): the counter
\* row of (kind, year) is locked and incremented, the header is inserted.
IssueNumber(p) ==
  /\ req[p].pc = "number"
  /\ LET key == SeqKey(req[p].kind, year)
         n == next_invoice_no(key)
         b == Head(req[p].todo)
         inv == [id |-> next_id,
                 invoice_no |-> FormatInvoiceNo(req[p].kind, year, n),
                 invoice_type |-> req[p].kind, organization |-> b.org,
                 buyer |-> BuyerSnapshot(b.buyer),
                 vat_rate |-> DefaultVatRate,
                 subtotal |-> 0, vat_amount |-> 0, total |-> 0,
                 status |-> "ISSUED", issued_by |-> "admin", paid_at |-> NotPaid]
     IN  /\ ~SeqLockedByOther(p, key)
         /\ handed' = Append(handed, <<req[p].kind, year, n>>)
         /\ IF \E i \in invoices : i.invoice_no = inv.invoice_no
            THEN Rollback(p, "IntegrityError: invoice_no")
            ELSE req' = [req EXCEPT ![p].pc = "items", ![p].seq_key = key,
                                    ![p].seq_no = n, ![p].inv = inv]
         /\ last_number' = save_last_number(key, n)
  /\ next_id' = next_id + 1
  /\ UNCHANGED <<status, invoice, fee_amount, submitted, invoices, items, envVars, started>>

\* Mutant of UnitPrice: the price is the current fee of the course or event.
UnitPriceOfTarget(kind, b, r) == catalog[<<kind, b.target>>].fee

\* unit_price = Decimal(str(course.fee or 0)) for an enrollment of bucket b,
\* unit_price = Decimal(str(r.fee_amount or 0)) for a registration.
UnitPrice(kind, b, r) == IF kind = "COURSE" THEN b.fee ELSE fee_amount[r]

\* for e in enrollments.select_related("student"): InvoiceItem.objects.create:
\* the eligible rows of the bucket are locked and one item is made for each.
IssueItems(p) ==
  /\ req[p].pc = "items"
  /\ LET b == Head(req[p].todo)
         elig == Eligible(b.rows)
         price(r) == UnitPrice(req[p].kind, b, r)
     IN  /\ \A r \in elig : ~LockedByOther(p, r)
         /\ IF elig # {} /\ ~FullCleanOk(req[p].inv, req[p].kind, b.desc_len)
            THEN Rollback(p, "ValidationError: description")
            ELSE req' = [req EXCEPT
                           ![p].pc = "link",
                           ![p].locked = @ \cup elig,
                           ![p].items = {InvoiceItemSave(req[p].inv, r, req[p].kind, 1, price(r)) :
                                           r \in elig}]
  /\ UNCHANGED <<dbVars, envVars, next_id, started, handed>>

\* enrollments.update(invoice=inv); recalc_invoice_totals(inv); the atomic
\* block ends and the transaction commits; the loop goes to the next bucket.
IssueLinkCommit(p) ==
  /\ req[p].pc = "link"
  /\ LET b == Head(req[p].todo)
         matched == Eligible(b.rows)
         inv == recalc_invoice_totals(req[p].inv, req[p].items)
         rest == Tail(req[p].todo)
     IN  /\ \A r \in matched : ~LockedByOther(p, r)
         /\ invoice' = UpdateInvoice(matched, inv.id)
         /\ invoices' = invoices \cup {inv}
         /\ items' = items \cup req[p].items
         /\ last_number' = [last_number EXCEPT ![req[p].seq_key] = req[p].seq_no]
         /\ req' = [req EXCEPT ![p] =
                      [IdleReq EXCEPT
                         !.pc = IF rest = <<>> THEN "done" ELSE "exists",
                         !.kind = IF rest = <<>> THEN "" ELSE req[p].kind,
                         !.sel = IF rest = <<>> THEN {} ELSE req[p].sel,
                         !.groups = IF rest = <<>> THEN 0 ELSE req[p].groups,
                         !.todo = rest,
                         !.created = req[p].created + 1,
                         !.msg = IF rest = <<>> THEN "Created invoice(s)" ELSE ""]]
  /\ UNCHANGED <<status, fee_amount, submitted, envVars, next_id, started, handed>>

\* The transactions p's next statement waits for.
WaitsFor(p) ==
  LET holders(S) == {q \in Procs \ {p} : req[q].locked \cap S # {}}
      elig == Eligible(Head(req[p].todo).rows)
  IN  CASE req[p].pc = "exists" ->
             IF \E r \in elig : ~LockedByOther(p, r) THEN {} ELSE holders(elig)
        [] req[p].pc = "number" ->
             {q \in Procs \ {p} : req[q].seq_key = <<req[p].kind, year>>}
        [] req[p].pc \in {"items", "link"} -> holders(elig)
        [] OTHER -> {}

RECURSIVE WaitsForWithin(_, _)
\* The transactions reached from p along at most n waits.
WaitsForWithin(p, n) ==
  IF n = 0 THEN {}
  ELSE WaitsFor(p) \cup UNION {WaitsForWithin(q, n - 1) : q \in WaitsFor(p)}

\* The server finds p in a cycle of waiting transactions and aborts it.
DeadlockAbort(p) ==
  /\ InFlight(p)
  /\ p \in WaitsForWithin(p, Cardinality(Procs))
  /\ Rollback(p, "OperationalError: deadlock detected")
  /\ UNCHANGED <<dbVars, envVars, next_id, started, handed>>

\* ------------------------------------------------- single-statement actions
\* The admin change form of a CourseEnrollment / EventRegistration saves a
\* new status (has_change_permission: admins only). The UPDATE waits for a
\* row lock.
AdminChangeStatus(r, s) ==
  /\ status[r] # "NONE"
  /\ ~Locked(r)
  /\ s \in (IF row[r].kind = "COURSE" THEN CourseStatus ELSE EventStatus)
  /\ status[r] # s
  /\ status' = [status EXCEPT ![r] = s]
  /\ UNCHANGED <<invoice, fee_amount, submitted, invoices, items, last_number, envVars,
                 next_id, req, started, handed>>

\* EventRegistrationAdmin.mark_as_paid:
\* queryset.filter(status="PENDING_PAYMENT").update(status="PAID", paid_at=now)
mark_as_paid(S) ==
  LET hit == {r \in S : status[r] = "PENDING_PAYMENT"}
  IN  /\ hit # {}
      /\ \A r \in S : row[r].kind = "EVENT" /\ status[r] # "NONE"
      /\ \A r \in hit : ~Locked(r)
      /\ status' = [r \in Rows |-> IF r \in hit THEN "PAID" ELSE status[r]]
      /\ UNCHANGED <<invoice, fee_amount, submitted, invoices, items, last_number, envVars,
                     next_id, req, started, handed>>

\* Mutant of ResetInvoiceLink: the reset also clears the invoice link.
ResetInvoiceLinkCleared(r) == 0

\* The reset of course_register_confirm writes invoice_no = "", which is no
\* field of CourseEnrollment: the invoice foreign key keeps its value.
ResetInvoiceLink(r) == invoice[r]

\* is_manager(user)
is_manager(u) == u.role = "ORG_MANAGER"

\* Mutant of OwnRows: the queries are not scoped to the user's organization.
OwnRowsAnyOrg(u, S) == S

\* organization=user.organization: of the rows a request names, those of the
\* user's organization.
OwnRows(u, S) == {r \in S : row[r].org = u.org}

\* Mutant of Registrable: every course and event can be chosen.
RegistrableAlways(kind, t) == TRUE

\* The course or event a register request may name: an active course
\* (Course, id=course_id, is_active=True), or an event in the queryset of
\* CompetitionRegisterForm: status OPEN and deadline NULL or not before today
\* (the clock of the model is the year, and a deadline is a point on it).
Registrable(kind, t) ==
  LET c == catalog[<<kind, t>>]
  IN  IF kind = "COURSE" THEN c.is_active
      ELSE c.status = "OPEN" /\ (c.deadline = NoDeadline \/ c.deadline >= year)

\* The rows of S a portal request on course or event t of a table works on.
OwnRowsOf(u, kind, t, S) ==
  {r \in OwnRows(u, S) : row[r].kind = kind /\ row[r].target = t}

\* Mutant of RESETTABLE: an existing enrollment in any status is reset.
RESETTABLE_ANY == CourseStatus

\* RESETTABLE = {"REJECTED", "DROPPED"} in course_register_confirm.
RESETTABLE == {"REJECTED", "DROPPED"}

\* course_register_confirm: get_or_create a DRAFT enrollment for each selected
\* student of the user's organization and the course; an existing REJECTED or
\* DROPPED one is reset to DRAFT with its submission cleared; any other is
\* left alone (a call that leaves every row alone is a stuttering step).
course_register_confirm(u, t, S) ==
  LET sel == OwnRowsOf(u, "COURSE", t, S)
      reset == {r \in sel : status[r] \in RESETTABLE}
  IN  /\ Registrable("COURSE", t)
      /\ \E r \in sel : status[r] = "NONE" \/ r \in reset
      /\ \A r \in reset : ~Locked(r)
      /\ status' = [r \in Rows |->
                      IF r \in sel /\ (status[r] = "NONE" \/ r \in reset)
                      THEN "DRAFT" ELSE status[r]]
      /\ invoice' = [r \in Rows |-> IF r \in reset THEN ResetInvoiceLink(r) ELSE invoice[r]]
      /\ submitted' = [r \in Rows |-> IF r \in reset THEN NoUser ELSE submitted[r]]
      /\ UNCHANGED <<fee_amount, invoices, items, last_number, envVars,
                     next_id, req, started, handed>>

\* competition_register_confirm: get_or_create a DRAFT registration with the
\* fee snapshot event.fee_per_student for each selected student of the user's
\* organization; an existing one is left alone.
competition_register_confirm(u, t, S) ==
  LET new == {r \in OwnRowsOf(u, "EVENT", t, S) : status[r] = "NONE"}
  IN  /\ Registrable("EVENT", t)
      /\ new # {}
      /\ status' = [r \in Rows |-> IF r \in new THEN "DRAFT" ELSE status[r]]
      /\ fee_amount' = [r \in Rows |->
                          IF r \in new THEN catalog[<<"EVENT", row[r].target>>].fee
                          ELSE fee_amount[r]]
      /\ UNCHANGED <<invoice, submitted, invoices, items, last_number, envVars,
                     next_id, req, started, handed>>

\* Mutant of SubmittedBy: the UPDATE writes the status only.
SubmittedByKept(u, r) == submitted[r]

\* qs.update(status="SUBMITTED", submitted_at=now, submitted_by=user)
SubmittedBy(u, r) == u

\* course_submit_final: a manager's request; the selected DRAFT enrollments of
\* the manager's organization and the course become SUBMITTED.
course_submit_final(u, t, S) ==
  LET hit == {r \in OwnRowsOf(u, "COURSE", t, S) : status[r] = "DRAFT"}
  IN  /\ is_manager(u)
      /\ hit # {}
      /\ status' = [r \in Rows |-> IF r \in hit THEN "SUBMITTED" ELSE status[r]]
      /\ submitted' = [r \in Rows |-> IF r \in hit THEN SubmittedBy(u, r) ELSE submitted[r]]
      /\ UNCHANGED <<invoice, fee_amount, invoices, items, last_number, envVars,
                     next_id, req, started, handed>>

\* course_submit: a manager's request; every DRAFT enrollment of the manager's
\* organization and the course becomes SUBMITTED.
course_submit(u, t) ==
  LET hit == {r \in OwnRowsOf(u, "COURSE", t, Rows) : status[r] = "DRAFT"}
  IN  /\ is_manager(u)
      /\ hit # {}
      /\ status' = [r \in Rows |-> IF r \in hit THEN "SUBMITTED" ELSE status[r]]
      /\ submitted' = [r \in Rows |-> IF r \in hit THEN SubmittedBy(u, r) ELSE submitted[r]]
      /\ UNCHANGED <<invoice, fee_amount, invoices, items, last_number, envVars,
                     next_id, req, started, handed>>

\* course_enrollment_submit_selected: no role is asked for; the selected DRAFT
\* enrollments of the user's organization become SUBMITTED by
\* .update(status="SUBMITTED"), which writes nothing else.
course_enrollment_submit_selected(u, S) ==
  LET hit == {r \in OwnRows(u, S) : row[r].kind = "COURSE" /\ status[r] = "DRAFT"}
  IN  /\ hit # {}
      /\ status' = [r \in Rows |-> IF r \in hit THEN "SUBMITTED" ELSE status[r]]
      /\ UNCHANGED <<invoice, fee_amount, submitted, invoices, items, last_number,
                     envVars, next_id, req, started, handed>>

\* issued_by=None, the argument competition_submit_final passes.
NoIssuer == ""

\* Mutant of IssuedByMissing: the functions have lost their first statement.
IssuedByMissingNever(issued_by) == FALSE

\* if issued_by is None: raise ValueError(...), the first statement of
\* issue_invoice_for_course_enrollments and issue_invoice_for_event_regs.
IssuedByMissing(issued_by) == issued_by = NoIssuer

\* The body of issue_invoice_for_event_regs after its first statement, run
\* inside the caller's transaction for the registrations regs of event t, of
\* which the caller has just set fresh to the event's fee: the invoice with
\* the next number, one item per registration, the links, the totals. A
\* missing seller, a taken number or a failing full_clean raises and the
\* caller's transaction is rolled back (no step).
issue_invoice_for_event_regs(u, t, regs, fresh, issued_by) ==
  LET key == SeqKey("EVENT", year)
      n == next_invoice_no(key)
      inv == [id |-> next_id,
              invoice_no |-> FormatInvoiceNo("EVENT", year, n),
              invoice_type |-> "EVENT", organization |-> u.org,
              buyer |-> BuyerSnapshot(organizations[u.org]),
              vat_rate |-> DefaultVatRate,
              subtotal |-> 0, vat_amount |-> 0, total |-> 0,
              status |-> "ISSUED", issued_by |-> issued_by, paid_at |-> NotPaid]
      price(r) == IF r \in fresh THEN catalog[<<"EVENT", t>>].fee ELSE fee_amount[r]
      its == {InvoiceItemSave(inv, r, "EVENT", 1, price(r)) : r \in regs}
  IN  /\ HasActiveSeller
      /\ \A q \in Procs : req[q].seq_key # key /\ req[q].locked \cap regs = {}
      /\ \A i \in invoices : i.invoice_no # inv.invoice_no
      /\ FullCleanOk(inv, "EVENT", DescriptionLen("EVENT", catalog[<<"EVENT", t>>]))
      /\ invoices' = invoices \cup {recalc_invoice_totals(inv, its)}
      /\ items' = items \cup its
      /\ invoice' = UpdateInvoice(regs, inv.id)
      /\ last_number' = [last_number EXCEPT ![key] = n]
      /\ handed' = Append(handed, <<"EVENT", year, n>>)
      /\ next_id' = next_id + 1

\* competition_submit_final: a manager's request, one transaction. The
\* selected DRAFT registrations of the manager's organization and the event
\* are updated to PENDING_PAYMENT with a new fee snapshot and the submission;
\* then, when a selected registration is PENDING_PAYMENT without invoice,
\* issue_invoice_for_event_regs is called with issued_by=None, raises
\* ValueError, and the transaction is rolled back.
competition_submit_final(u, t, S) ==
  LET sel == OwnRowsOf(u, "EVENT", t, S)
      hit == {r \in sel : status[r] = "DRAFT"}
      regs_pending == {r \in sel : (r \in hit \/ status[r] = "PENDING_PAYMENT")
                                    /\ invoice[r] = 0}
  IN  /\ is_manager(u)
      /\ hit \cup regs_pending # {}
      /\ IF regs_pending # {} /\ IssuedByMissing(NoIssuer)
         THEN UNCHANGED <<dbVars, next_id, handed>>
         ELSE /\ status' = [r \in Rows |-> IF r \in hit THEN "PENDING_PAYMENT" ELSE status[r]]
              /\ fee_amount' = [r \in Rows |->
                                  IF r \in hit THEN catalog[<<"EVENT", row[r].target>>].fee
                                  ELSE fee_amount[r]]
              /\ submitted' = [r \in Rows |-> IF r \in hit THEN SubmittedBy(u, r) ELSE submitted[r]]
              /\ IF regs_pending = {}
                 THEN UNCHANGED <<invoice, invoices, items, last_number, next_id, handed>>
                 ELSE issue_invoice_for_event_regs(u, t, regs_pending, hit, NoIssuer)
      /\ UNCHANGED <<envVars, req, started>>

\* invoice_detail: get_object_or_404(Invoice, id=invoice_id,
\* organization=user.organization): the invoice shown, or none (404).
invoice_detail(u, id) == {inv \in invoices : inv.id = id /\ inv.organization = u.org}

\* InvoiceItemAdmin, a plain ModelAdmin: the change form saves the item of
\* row r with another qty. InvoiceItem.save recomputes the three line amounts
\* (full_clean passes: link and description are as created); nothing
\* recomputes the invoice.
InvoiceItemAdminChange(r, qty) ==
  \E it \in items, inv \in invoices :
    /\ it.row = r
    /\ inv.id = it.invoice
    /\ qty # it.qty
    /\ items' = (items \ {it}) \cup
                  {InvoiceItemSave(inv, it.row, it.link, qty, it.unit_price)}
    /\ UNCHANGED <<status, invoice, fee_amount, submitted, invoices, last_number, envVars,
                   next_id, req, started, handed>>

\* EventAdmin, a plain ModelAdmin: the change form saves fee_per_student.
\* Event.save touches no registration and no item.
EventAdminChangeFee(t, fee) ==
  /\ catalog[<<"EVENT", t>>].fee # fee
  /\ catalog' = [catalog EXCEPT ![<<"EVENT", t>>].fee = fee]
  /\ UNCHANGED <<dbVars, row, seller_active, year, next_id, req, started, handed, students, organizations>>

\* CompanyProfileAdmin, a plain ModelAdmin: the change form saves is_active.
CompanyProfileAdminSave(active) ==
  /\ active # seller_active
  /\ seller_active' = active
  /\ UNCHANGED <<dbVars, row, catalog, year, next_id, req, started, handed, students, organizations>>

\* The calendar year changes.
NewYear ==
  /\ year < YearSpan
  /\ year' = year + 1
  /\ UNCHANGED <<dbVars, row, catalog, seller_active, next_id, req, started, handed, students, organizations>>

\* ------------------------------------------------------------ specification
\* Events with a code and a name that fit the description, and (the last
\* one) with a code and a name at their column limits, 30 and 200.
\* Events are OPEN without a deadline and courses are active, the defaults
\* of Event.status, Event.deadline and Course.is_active.
ShortEvent ==
  [fee |-> 10000, code_len |-> 8, name_len |-> 40, level_len |-> 0,
   status |-> "OPEN", deadline |-> NoDeadline]
LongEvent ==
  [fee |-> 10000, code_len |-> 30, name_len |-> 200, level_len |-> 0,
   status |-> "OPEN", deadline |-> NoDeadline]
ShortCourse ==
  [fee |-> 10000, code_len |-> 0, name_len |-> 40, level_len |-> 1,
   is_active |-> TRUE]
Targets == 1..((NRows + 1) \div 2)
LastTarget == (NRows + 1) \div 2
Keys == InvoiceTypes \X Years

\* Student rows: the organization (Student.organization) and the registration
\* number sa_registration_no, the year of its prefix and its counter.
StudentIds == 1..NRows
\* sa_registration_no is blank.
NoNumber == [year |-> 0, seq |-> <<>>]
NoStudent == [org |-> 0, no |-> NoNumber, level |-> 0]
\* f"{prefix}{next_num:06d}" with prefix f"UCMAS-KSA-{year}-".
FormatRegistrationNo(yr, n) ==
  [year |-> yr, seq |-> ZeroPad(Digits(n), RegistrationPadWidth)]
\* The roster behind a table of registrations: row r is the row of student r,
\* a student of the row's organization, numbered in the first year.
RosterOf(rw) ==
  [s \in StudentIds |->
     [org |-> rw[s].org, no |-> FormatRegistrationNo(0, s), level |-> 1]]

\* Submitted event registrations of one organization, two per event, with
\* the fee snapshot taken; no invoice has been issued yet.
Init ==
  /\ row = [r \in Rows |-> [kind |-> "EVENT", org |-> 1, target |-> (r + 1) \div 2]]
  /\ status = [r \in Rows |-> "SUBMITTED"]
  /\ invoice = [r \in Rows |-> 0]
  /\ fee_amount = [r \in Rows |-> 10000]
  /\ submitted = [r \in Rows |-> NoUser]
  /\ catalog = [k \in InvoiceTypes \X Targets |->
                  IF k[1] = "COURSE" THEN ShortCourse
                  ELSE IF k[2] = LastTarget THEN LongEvent ELSE ShortEvent]
  /\ invoices = {}
  /\ items = {}
  /\ last_number = [k \in Keys |-> 0]
  /\ seller_active = TRUE
  /\ year = 0
  /\ next_id = 1
  /\ req = [p \in Procs |-> IdleReq]
  /\ started = 0
  /\ handed = <<>>
  /\ organizations = [o \in Orgs |-> Registered]
  /\ students = RosterOf(row)

Step(p) ==
  \/ IssueExists(p)
  \/ IssueNumber(p)
  \/ IssueItems(p)
  \/ IssueLinkCommit(p)
  \/ DeadlockAbort(p)

\* An admin approves a submitted row through the change form.
Approve(r) == status[r] = "SUBMITTED" /\ AdminChangeStatus(r, "PENDING_PAYMENT")

Next ==
  \/ \E p \in Procs, S \in SUBSET Rows : AdminIssueStart(p, "EVENT", S)
  \/ \E p \in Procs : Step(p)
  \/ \E r \in Rows : Approve(r)

Spec == Init /\ [][Next]_vars

\* Fair scheduling: the server goes on running every request that can take
\* its next statement, and the database goes on looking for deadlocks.
SpecFair == Spec /\ \A p \in Procs : WF_vars(Step(p))

\* ------------------------------------------ sequential grouped issuance
\* One admin issues invoices for selections over every layout of the rows:
\* each row in the bucket of the first row, in another course or event of
\* its organization, or in another organization; approved (PENDING_PAYMENT)
\* or not (SUBMITTED); all with one fee.
Layouts == {<<1, 1>>, <<1, 2>>, <<2, 1>>}
GroupFees == {10000, 30}

InitGroup ==
  /\ \E kind \in InvoiceTypes :
       row \in [Rows -> {[kind |-> kind, org |-> l[1], target |-> l[2]] : l \in Layouts}]
  /\ row[1].org = 1 /\ row[1].target = 1
  /\ status \in [Rows -> {"SUBMITTED", "PENDING_PAYMENT"}]
  /\ invoice = [r \in Rows |-> 0]
  /\ \E f \in GroupFees :
       /\ fee_amount = [r \in Rows |-> f]
       /\ submitted = [r \in Rows |-> NoUser]
       /\ catalog = [k \in InvoiceTypes \X Targets |->
                       IF k[1] = "COURSE" THEN [ShortCourse EXCEPT !.fee = f]
                       ELSE [ShortEvent EXCEPT !.fee = f]]
  /\ invoices = {}
  /\ items = {}
  /\ last_number = [k \in Keys |-> 0]
  /\ seller_active = TRUE
  /\ year = 0
  /\ next_id = 1
  /\ req = [p \in Procs |-> IdleReq]
  /\ started = 0
  /\ handed = <<>>
  /\ organizations = [o \in Orgs |-> Registered]
  /\ students = RosterOf(row)

StepGroup ==
  \/ IssueExists("a1")
  \/ IssueNumber("a1")
  \/ IssueItems("a1")
  \/ IssueLinkCommit("a1")

\* The admin runs the action once.
IssueOnce(kind, S) == started = 0 /\ AdminIssueStart("a1", kind, S)

NextGroup ==
  \/ \E kind \in InvoiceTypes, S \in SUBSET Rows : IssueOnce(kind, S)
  \/ StepGroup

SpecGroup == InitGroup /\ [][NextGroup]_vars

\* --------------------------------------------------- the life of the rows
\* Course enrollments and one event registration of one organization, from
\* their creation in the portal to payment, with one admin issuing invoices.
\* The admin approves, rejects or drops a row in its change form; payment
\* is recorded with the mark_as_paid action.
AdminDecisions == {"PENDING_PAYMENT", "REJECTED", "DROPPED"}

InitLife ==
  /\ row = [r \in Rows |->
              IF r = NRows THEN [kind |-> "EVENT", org |-> 1, target |-> 1]
              ELSE [kind |-> "COURSE", org |-> 1, target |-> (r + 1) \div 2]]
  /\ status = [r \in Rows |-> "NONE"]
  /\ invoice = [r \in Rows |-> 0]
  /\ fee_amount = [r \in Rows |-> 0]
  /\ submitted = [r \in Rows |-> NoUser]
  /\ catalog = [k \in InvoiceTypes \X Targets |->
                  IF k[1] = "COURSE" THEN ShortCourse ELSE ShortEvent]
  /\ invoices = {}
  /\ items = {}
  /\ last_number = [k \in Keys |-> 0]
  /\ seller_active = TRUE
  /\ year = 0
  /\ next_id = 1
  /\ req = [p \in Procs |-> IdleReq]
  /\ started = 0
  /\ handed = <<>>
  /\ organizations = [o \in Orgs |-> Registered]
  /\ students = RosterOf(row)

\* The manager of the organization.
OrgManager == [role |-> "ORG_MANAGER", org |-> 1]

\* The selections the portal's pages offer: students of the course or event.
Offered(kind, t) == {S \in SUBSET Rows : \A r \in S : row[r].kind = kind /\ row[r].target = t}

NextLife ==
  \/ \E t \in Targets : \E S \in Offered("COURSE", t) : course_register_confirm(OrgManager, t, S)
  \/ \E t \in Targets : \E S \in Offered("EVENT", t) : competition_register_confirm(OrgManager, t, S)
  \/ \E r \in Rows, s \in AdminDecisions : AdminChangeStatus(r, s)
  \/ \E S \in SUBSET Rows : mark_as_paid(S)
  \/ \E kind \in InvoiceTypes, S \in SUBSET Rows : AdminIssueStart("a1", kind, S)
  \/ StepGroup

SpecLife == InitLife /\ [][NextLife]_vars

\* ------------------------------------------------ the admin's invoice items
\* One admin approves rows and issues invoices, over the change of the
\* year; the items of the committed invoices are edited through the admin.
\* The quantities the admin types into the item form.
Quantities == {1, 2}

NextItems ==
  \/ \E r \in Rows : Approve(r)
  \/ \E S \in SUBSET Rows : AdminIssueStart("a1", "EVENT", S)
  \/ StepGroup
  \/ \E r \in Rows, qty \in Quantities : InvoiceItemAdminChange(r, qty)
  \/ NewYear

SpecItems == Init /\ [][NextItems]_vars

\* -------------------------------------------------- the fee of an event
\* Registrations of one organization's students for events, the first of
\* which has its fee changed at any moment: the portal creates them with the fee
\* snapshot, a manager submits them, the admin moves them on to
\* PENDING_PAYMENT, issues invoices and edits items.
EventFees == {10000, 12000}

InitFees ==
  /\ row = [r \in Rows |-> [kind |-> "EVENT", org |-> 1, target |-> (r + 1) \div 2]]
  /\ status = [r \in Rows |-> "NONE"]
  /\ invoice = [r \in Rows |-> 0]
  /\ fee_amount = [r \in Rows |-> 0]
  /\ submitted = [r \in Rows |-> NoUser]
  /\ catalog = [k \in InvoiceTypes \X Targets |->
                  IF k[1] = "COURSE" THEN ShortCourse ELSE ShortEvent]
  /\ invoices = {}
  /\ items = {}
  /\ last_number = [k \in Keys |-> 0]
  /\ seller_active = TRUE
  /\ year = 0
  /\ next_id = 1
  /\ req = [p \in Procs |-> IdleReq]
  /\ started = 0
  /\ handed = <<>>
  /\ organizations = [o \in Orgs |-> Registered]
  /\ students = RosterOf(row)

NextFees ==
  \/ \E t \in Targets : \E S \in Offered("EVENT", t) : competition_register_confirm(OrgManager, t, S)
  \/ \E t \in Targets : \E S \in Offered("EVENT", t) : competition_submit_final(OrgManager, t, S)
  \/ \E fee \in EventFees : EventAdminChangeFee(1, fee)
  \/ \E r \in Rows : AdminChangeStatus(r, "PENDING_PAYMENT")
  \/ \E S \in SUBSET Rows : IssueOnce("EVENT", S)
  \/ StepGroup
  \/ \E r \in Rows, qty \in Quantities : InvoiceItemAdminChange(r, qty)

SpecFees == InitFees /\ [][NextFees]_vars

\* ------------------------------------------------- the portal's requests
\* Students of two organizations, for a course (the first rows) and for an
\* event; managers and staff of both organizations send the portal's
\* requests with any ids, and the admin decides on rows. The enrollment of
\* organization 2 (row 2) has been submitted by its manager, approved and
\* invoiced: the first COURSE invoice of the year.
PortalDecisions == {"PENDING_PAYMENT", "REJECTED"}

FirstInvoiceHeader ==
  [id |-> 1, invoice_no |-> FormatInvoiceNo("COURSE", 0, 1),
   invoice_type |-> "COURSE", organization |-> 2,
   buyer |-> BuyerSnapshot(Registered), vat_rate |-> DefaultVatRate,
   subtotal |-> 0, vat_amount |-> 0, total |-> 0,
   status |-> "ISSUED", issued_by |-> "admin", paid_at |-> NotPaid]
FirstInvoiceItems == {InvoiceItemSave(FirstInvoiceHeader, 2, "COURSE", 1, ShortCourse.fee)}
FirstInvoice == recalc_invoice_totals(FirstInvoiceHeader, FirstInvoiceItems)

InitPortal ==
  /\ row = [r \in Rows |->
              [kind |-> IF r <= (NRows + 1) \div 2 THEN "COURSE" ELSE "EVENT",
               org |-> 2 - (r % 2), target |-> 1]]
  /\ status = [r \in Rows |-> IF r = 2 THEN "PENDING_PAYMENT" ELSE "NONE"]
  /\ invoice = [r \in Rows |-> IF r = 2 THEN FirstInvoice.id ELSE 0]
  /\ fee_amount = [r \in Rows |-> 0]
  /\ submitted = [r \in Rows |->
                    IF r = 2 THEN [role |-> "ORG_MANAGER", org |-> 2] ELSE NoUser]
  /\ catalog = [k \in InvoiceTypes \X Targets |->
                  IF k[1] = "COURSE" THEN ShortCourse ELSE ShortEvent]
  /\ invoices = {FirstInvoice}
  /\ items = FirstInvoiceItems
  /\ last_number = [k \in Keys |-> IF k = <<"COURSE", 0>> THEN 1 ELSE 0]
  /\ seller_active = TRUE
  /\ year = 0
  /\ next_id = 2
  /\ req = [p \in Procs |-> IdleReq]
  /\ started = 0
  /\ handed = <<<<"COURSE", 0, 1>>>>
  /\ organizations = [o \in Orgs |-> Registered]
  /\ students = RosterOf(row)

\* A request of user u to one of the portal's writing endpoints, for course or
\* event t and with the ids S.
PortalRequest(u, t, S) ==
  \/ course_register_confirm(u, t, S)
  \/ competition_register_confirm(u, t, S)
  \/ course_submit(u, t)
  \/ course_submit_final(u, t, S)
  \/ course_enrollment_submit_selected(u, S)
  \/ competition_submit_final(u, t, S)

NextPortal ==
  \/ \E u \in Users, t \in Targets, S \in SUBSET Rows : course_register_confirm(u, t, S)
  \/ \E u \in Users, t \in Targets, S \in SUBSET Rows : competition_register_confirm(u, t, S)
  \/ \E u \in Users, t \in Targets : course_submit(u, t)
  \/ \E u \in Users, t \in Targets, S \in SUBSET Rows : course_submit_final(u, t, S)
  \/ \E u \in Users, S \in SUBSET Rows : course_enrollment_submit_selected(u, S)
  \/ \E u \in Users, t \in Targets, S \in SUBSET Rows : competition_submit_final(u, t, S)
  \/ \E r \in Rows, s \in PortalDecisions : AdminChangeStatus(r, s)

SpecPortal == InitPortal /\ [][NextPortal]_vars

\* ------------------------------------------- both counters over the years
\* One admin issues COURSE and EVENT invoices, over the change of the year
\* and of the seller's is_active: an approved enrollment (row 1) and approved
\* registrations, the last one for the event whose description does not fit.
InitYears ==
  /\ row = [r \in Rows |->
              IF r = 1 THEN [kind |-> "COURSE", org |-> 1, target |-> 1]
              ELSE [kind |-> "EVENT", org |-> 1,
                    target |-> IF r = NRows THEN LastTarget ELSE 1]]
  /\ status = [r \in Rows |-> "PENDING_PAYMENT"]
  /\ invoice = [r \in Rows |-> 0]
  /\ fee_amount = [r \in Rows |-> 10000]
  /\ submitted = [r \in Rows |-> NoUser]
  /\ catalog = [k \in InvoiceTypes \X Targets |->
                  IF k[1] = "COURSE" THEN ShortCourse
                  ELSE IF k[2] = LastTarget THEN LongEvent ELSE ShortEvent]
  /\ invoices = {}
  /\ items = {}
  /\ last_number = [k \in Keys |-> 0]
  /\ seller_active = TRUE
  /\ year = 0
  /\ next_id = 1
  /\ req = [p \in Procs |-> IdleReq]
  /\ started = 0
  /\ handed = <<>>
  /\ organizations = [o \in Orgs |-> Registered]
  /\ students = RosterOf(row)

NextYears ==
  \/ \E kind \in InvoiceTypes, S \in SUBSET Rows : AdminIssueStart("a1", kind, S)
  \/ StepGroup
  \/ \E active \in BOOLEAN : CompanyProfileAdminSave(active)
  \/ NewYear

SpecYears == InitYears /\ [][NextYears]_vars

\* ------------------------------------------- concurrent register requests
\* No row is stored under an id.
NoRow == [kind |-> "", org |-> 0, target |-> 0, student |-> 0]

\* The rows a register request has inserted and not committed.
Inserting(q) == IF req[q].pc \in {"get", "create"} THEN req[q].ins ELSE {}

\* READ COMMITTED: a query of request p sees the committed rows and the rows
\* p itself inserted.
Visible(p, r) ==
  /\ status[r] # "NONE"
  /\ \A q \in Procs \ {p} : r \notin Inserting(q)

\* The student the loop `for s in students` is at.
CurrentStudent(p) == CHOOSE s \in req[p].sel : \A o \in req[p].sel : s <= o

\* The lookup of get_or_create: organization=user.organization, student=s and
\* course=course (event=event).
LookupKey(p) ==
  [kind |-> req[p].kind, org |-> req[p].user.org, target |-> req[p].target,
   student |-> CurrentStudent(p)]

\* Mutant of UniqueClash: the tables carry no unique constraint.
UniqueClashNone(p) == {}

\* UniqueConstraint uniq_student_course (uniq_event_student): the stored rows,
\* committed or not, an INSERT for the current student collides with.
UniqueClash(p) ==
  {r \in Rows : /\ status[r] # "NONE"
                /\ row[r].kind = req[p].kind
                /\ row[r].student = CurrentStudent(p)
                /\ row[r].target = req[p].target}

\* A register request passes its checks and reads the selected students of
\* the user's organization; the loop starts inside transaction.atomic().
RegisterStart(p, u, kind, t, S) ==
  LET own == {s \in S : students[s] # NoStudent /\ students[s].org = u.org}
  IN  /\ req[p].pc = "idle"
      /\ started < MaxRequests
      /\ Registrable(kind, t)
      /\ own # {}
      /\ req' = [req EXCEPT ![p] =
                   [pc |-> "get", kind |-> kind, sel |-> own, locked |-> {},
                    user |-> u, target |-> t, ins |-> {}]]
      /\ started' = started + 1
      /\ UNCHANGED <<dbVars, envVars, next_id, handed>>

\* get_or_create, self.get(**kwargs): a row found ends the iteration; the
\* course request resets a REJECTED or DROPPED one (enrollment.save() takes
\* the row lock, the UPDATE is seen at the commit). No row found: create.
get_or_create_get(p) ==
  /\ req[p].pc = "get"
  /\ req[p].sel # {}
  /\ LET found == {r \in Rows : Visible(p, r) /\ row[r] = LookupKey(p)}
         reset == {r \in found : /\ req[p].kind = "COURSE"
                                 /\ status[r] \in {"REJECTED", "DROPPED"}}
     IN  IF found = {}
         THEN req' = [req EXCEPT ![p].pc = "create"]
         ELSE /\ \A r \in reset : ~LockedByOther(p, r)
              /\ req' = [req EXCEPT ![p].sel = @ \ {CurrentStudent(p)},
                                    ![p].locked = @ \cup reset]
  /\ UNCHANGED <<dbVars, envVars, next_id, started, handed>>

\* get_or_create, self.create(**params): the INSERT stores a DRAFT row (with
\* the fee snapshot, for an event) unless the unique constraint is hit: it
\* waits for an uncommitted row of another transaction, and on IntegrityError
\* get_or_create looks the row up again and raises when it finds none; the
\* exception leaves transaction.atomic() and the request's rows are gone.
get_or_create_create(p) ==
  /\ req[p].pc = "create"
  /\ \A r \in UniqueClash(p) : Visible(p, r)
  /\ IF UniqueClash(p) = {}
     THEN \E id \in Rows :
            /\ status[id] = "NONE"
            /\ \A o \in Rows : status[o] = "NONE" => id <= o
            /\ row' = [row EXCEPT ![id] = LookupKey(p)]
            /\ status' = [status EXCEPT ![id] = "DRAFT"]
            /\ fee_amount' = [fee_amount EXCEPT ![id] =
                                IF req[p].kind = "EVENT"
                                THEN catalog[<<"EVENT", req[p].target>>].fee ELSE 0]
            /\ req' = [req EXCEPT ![p].pc = "get",
                                  ![p].sel = @ \ {CurrentStudent(p)},
                                  ![p].ins = @ \cup {id}]
     ELSE IF \E r \in Rows : Visible(p, r) /\ row[r] = LookupKey(p)
     THEN /\ req' = [req EXCEPT ![p].pc = "get"]
          /\ UNCHANGED <<row, status, fee_amount>>
     ELSE /\ row' = [r \in Rows |-> IF r \in req[p].ins THEN NoRow ELSE row[r]]
          /\ status' = [r \in Rows |-> IF r \in req[p].ins THEN "NONE" ELSE status[r]]
          /\ fee_amount' = [r \in Rows |-> IF r \in req[p].ins THEN 0 ELSE fee_amount[r]]
          /\ req' = [req EXCEPT ![p] = IdleReq]
  /\ UNCHANGED <<invoice, submitted, invoices, items, last_number, catalog,
                 seller_active, year, students, next_id, started, handed, organizations>>

\* The loop is over and transaction.atomic() commits: the inserted rows are
\* seen by every request and the reset rows are DRAFT.
RegisterCommit(p) ==
  /\ req[p].pc = "get"
  /\ req[p].sel = {}
  /\ status' = [r \in Rows |-> IF r \in req[p].locked THEN "DRAFT" ELSE status[r]]
  /\ invoice' = [r \in Rows |->
                   IF r \in req[p].locked THEN ResetInvoiceLink(r) ELSE invoice[r]]
  /\ submitted' = [r \in Rows |-> IF r \in req[p].locked THEN NoUser ELSE submitted[r]]
  /\ req' = [req EXCEPT ![p] = IdleReq]
  /\ UNCHANGED <<fee_amount, invoices, items, last_number, envVars, next_id,
                 started, handed>>

\* StudentAdmin: an admin saves a student's change form with another
\* organization (the field is read-only for the other users only).
StudentAdminChangeOrganization(s, o) ==
  /\ students[s] # NoStudent
  /\ students[s].org # o
  /\ students' = [students EXCEPT ![s].org = o]
  /\ UNCHANGED <<dbVars, row, catalog, seller_active, year, next_id, req,
                 started, handed, organizations>>

\* Three students, the last of the second organization, and no registration.
InitRegister ==
  /\ row = [r \in Rows |-> NoRow]
  /\ status = [r \in Rows |-> "NONE"]
  /\ invoice = [r \in Rows |-> 0]
  /\ fee_amount = [r \in Rows |-> 0]
  /\ submitted = [r \in Rows |-> NoUser]
  /\ catalog = [k \in InvoiceTypes \X Targets |->
                  IF k[1] = "COURSE" THEN ShortCourse ELSE ShortEvent]
  /\ invoices = {}
  /\ items = {}
  /\ last_number = [k \in Keys |-> 0]
  /\ seller_active = TRUE
  /\ year = 0
  /\ next_id = 1
  /\ req = [p \in Procs |-> IdleReq]
  /\ started = 0
  /\ handed = <<>>
  /\ organizations = [o \in Orgs |-> Registered]
  /\ students = [s \in StudentIds |->
                   [org |-> IF s = NRows THEN 2 ELSE 1,
                    no |-> FormatRegistrationNo(0, s), level |-> 1]]

\* The users of the register requests, one of each organization.
Registrars == {u \in Users : u.role = "ORG_STAFF"}

\* The selections of the register requests: of the first student, whom the
\* admin moves, and the last one, of the second organization.
Selections == SUBSET {1, NRows}

NextRegister ==
  \/ \E p \in Procs, u \in Registrars, kind \in InvoiceTypes, S \in Selections :
       RegisterStart(p, u, kind, 1, S)
  \/ \E p \in Procs : get_or_create_get(p)
  \/ \E p \in Procs : get_or_create_create(p)
  \/ \E p \in Procs : RegisterCommit(p)
  \/ \E r \in Rows : AdminChangeStatus(r, "REJECTED")
  \/ \E o \in Orgs : StudentAdminChangeOrganization(1, o)

SpecRegister == InitRegister /\ [][NextRegister]_vars

\* ------------------------------------------------ what is open to register
\* EventAdmin, a plain ModelAdmin: the change form saves status and deadline.
EventAdminChangeStatus(t, s, d) ==
  /\ catalog[<<"EVENT", t>>].status # s \/ catalog[<<"EVENT", t>>].deadline # d
  /\ catalog' = [catalog EXCEPT ![<<"EVENT", t>>].status = s,
                                ![<<"EVENT", t>>].deadline = d]
  /\ UNCHANGED <<dbVars, row, seller_active, year, next_id, req, started, handed, students, organizations>>

\* CourseAdmin, a plain ModelAdmin: the change form saves is_active.
CourseAdminChangeActive(t, active) ==
  /\ catalog[<<"COURSE", t>>].is_active # active
  /\ catalog' = [catalog EXCEPT ![<<"COURSE", t>>].is_active = active]
  /\ UNCHANGED <<dbVars, row, seller_active, year, next_id, req, started, handed, students, organizations>>

\* Event.deadline: NULL or a date.
Deadlines == {NoDeadline} \cup Years

\* Students of one organization, not yet registered: the odd ones may be
\* registered for an event, the even ones for a course.
InitOffer ==
  /\ row = [r \in Rows |->
              [kind |-> IF r % 2 = 1 THEN "EVENT" ELSE "COURSE", org |-> 1,
               target |-> (r + 1) \div 2]]
  /\ status = [r \in Rows |-> "NONE"]
  /\ invoice = [r \in Rows |-> 0]
  /\ fee_amount = [r \in Rows |-> 0]
  /\ submitted = [r \in Rows |-> NoUser]
  /\ catalog = [k \in InvoiceTypes \X Targets |->
                  IF k[1] = "COURSE" THEN ShortCourse ELSE ShortEvent]
  /\ invoices = {}
  /\ items = {}
  /\ last_number = [k \in Keys |-> 0]
  /\ seller_active = TRUE
  /\ year = 0
  /\ next_id = 1
  /\ req = [p \in Procs |-> IdleReq]
  /\ started = 0
  /\ handed = <<>>
  /\ organizations = [o \in Orgs |-> Registered]
  /\ students = RosterOf(row)

NextOffer ==
  \/ \E u \in Users, t \in Targets, S \in SUBSET Rows : course_register_confirm(u, t, S)
  \/ \E u \in Users, t \in Targets, S \in SUBSET Rows : competition_register_confirm(u, t, S)
  \/ \E t \in Targets, s \in {"OPEN", "CLOSED"}, d \in Deadlines : EventAdminChangeStatus(t, s, d)
  \/ \E t \in Targets, active \in BOOLEAN : CourseAdminChangeActive(t, active)
  \/ NewYear

SpecOffer == InitOffer /\ [][NextOffer]_vars

\* ------------------------------------------------- student numbers
\* The order of order_by("-sa_registration_no") on the digits after a common
\* prefix: strings compare character by character, a proper prefix first.
LexLess(a, b) ==
  \/ /\ Len(a) < Len(b)
     /\ \A i \in 1..Len(a) : a[i] = b[i]
  \/ \E i \in 1..Len(a) :
       /\ i <= Len(b)
       /\ a[i] < b[i]
       /\ \A j \in 1..(i - 1) : a[j] = b[j]

\* Mutant of WithPrefix: the numbers of every year are scanned.
WithPrefixAnyYear(yr) ==
  {s \in StudentIds : students[s] # NoStudent /\ students[s].no # NoNumber}

\* sa_registration_no__startswith=prefix: the stored students whose number
\* starts with the prefix of the year.
WithPrefix(yr) ==
  {s \in StudentIds : /\ students[s] # NoStudent
                       /\ students[s].no # NoNumber
                       /\ students[s].no.year = yr}

\* Student.save: the number after the one of the last student in the order of
\* the numbers with the year's prefix, 1 when there is none.
next_num(yr) ==
  IF WithPrefix(yr) = {} THEN 1
  ELSE LET last == CHOOSE s \in WithPrefix(yr) :
                     \A o \in WithPrefix(yr) \ {s} :
                       LexLess(students[o].no.seq, students[s].no.seq)
       IN  FromDigits(students[last].no.seq) + 1

\* Mutant of NumberTaken: sa_registration_no is not unique.
NumberTakenNever(no) == FALSE

\* unique=True on sa_registration_no: a stored student carries the number.
NumberTaken(no) == \E s \in StudentIds : students[s] # NoStudent /\ students[s].no = no

\* student_wizard_review creates Student(organization=user.organization) and
\* Student.save, the number being blank, computes it from the stored ones.
StudentSaveNumber(p, u) ==
  /\ req[p].pc = "idle"
  /\ started < NRows
  /\ req' = [req EXCEPT ![p] =
               [pc |-> "insert", locked |-> {}, org |-> u.org,
                no |-> FormatRegistrationNo(year, next_num(year))]]
  /\ started' = started + 1
  /\ UNCHANGED <<dbVars, envVars, next_id, handed>>

\* super().save(): the INSERT; a number another student carries raises
\* IntegrityError and nothing is stored.
StudentSaveInsert(p) ==
  /\ req[p].pc = "insert"
  /\ req' = [req EXCEPT ![p] = IdleReq]
  /\ IF NumberTaken(req[p].no)
     THEN UNCHANGED <<students, handed>>
     ELSE \E s \in StudentIds :
            /\ students[s] = NoStudent
            /\ \A o \in StudentIds : students[o] = NoStudent => s <= o
            /\ students' = [students EXCEPT ![s] =
                              [org |-> req[p].org, no |-> req[p].no, level |-> 1]]
            /\ handed' = Append(handed, <<"STUDENT", req[p].no.year,
                                          FromDigits(req[p].no.seq)>>)
  /\ UNCHANGED <<dbVars, row, catalog, seller_active, year, next_id, started, organizations>>

\* student_wizard_review with pk: the student of the user's organization is
\* loaded, the wizard's fields are set and save() keeps the number it finds.
StudentWizardEdit(u, s, level) ==
  /\ students[s] # NoStudent
  /\ students[s].org = u.org
  /\ students[s].level # level
  /\ students' = [students EXCEPT ![s].level = level,
                                  ![s].no = IF @ = NoNumber
                                            THEN FormatRegistrationNo(year, next_num(year))
                                            ELSE @]
  /\ UNCHANGED <<dbVars, row, catalog, seller_active, year, next_id, req,
                 started, handed, organizations>>

\* StudentAdmin, delete: the student goes, with the enrollments and the
\* registrations (CASCADE), unless an invoice item names the student (PROTECT).
StudentAdminDelete(s) ==
  /\ students[s] # NoStudent
  /\ \A it \in items : row[it.row].student # s
  /\ students' = [students EXCEPT ![s] = NoStudent]
  /\ row' = [r \in Rows |-> IF row[r].student = s THEN NoRow ELSE row[r]]
  /\ status' = [r \in Rows |-> IF row[r].student = s THEN "NONE" ELSE status[r]]
  /\ invoice' = [r \in Rows |-> IF row[r].student = s THEN 0 ELSE invoice[r]]
  /\ fee_amount' = [r \in Rows |-> IF row[r].student = s THEN 0 ELSE fee_amount[r]]
  /\ submitted' = [r \in Rows |-> IF row[r].student = s THEN NoUser ELSE submitted[r]]
  /\ UNCHANGED <<invoices, items, last_number, catalog, seller_active, year,
                 next_id, req, started, handed, organizations>>

\* No student and no registration yet.
InitStudents ==
  /\ row = [r \in Rows |-> NoRow]
  /\ status = [r \in Rows |-> "NONE"]
  /\ invoice = [r \in Rows |-> 0]
  /\ fee_amount = [r \in Rows |-> 0]
  /\ submitted = [r \in Rows |-> NoUser]
  /\ catalog = [k \in InvoiceTypes \X Targets |->
                  IF k[1] = "COURSE" THEN ShortCourse ELSE ShortEvent]
  /\ invoices = {}
  /\ items = {}
  /\ last_number = [k \in Keys |-> 0]
  /\ seller_active = TRUE
  /\ year = 0
  /\ next_id = 1
  /\ req = [p \in Procs |-> IdleReq]
  /\ started = 0
  /\ handed = <<>>
  /\ organizations = [o \in Orgs |-> Registered]
  /\ students = [s \in StudentIds |-> NoStudent]

\* Student.current_level as the wizard sets it.
Levels == 1..2

NextStudents ==
  \/ \E p \in Procs, u \in Registrars : StudentSaveNumber(p, u)
  \/ \E p \in Procs : StudentSaveInsert(p)
  \/ \E u \in Registrars, s \in StudentIds, level \in Levels : StudentWizardEdit(u, s, level)
  \/ \E s \in StudentIds : StudentAdminDelete(s)
  \/ NewYear

SpecStudents == InitStudents /\ [][NextStudents]_vars

\* ------------------------------------------------- the links of an item
\* Mutant of InvoiceItemClean: clean() accepts every item.
InvoiceItemCleanAny(inv, course_enrollment, event_registration) == TRUE

\* InvoiceItem.clean, run by the admin form and by full_clean() in save: the
\* item of a COURSE invoice has course_enrollment and no event_registration,
\* the item of an EVENT invoice event_registration and no course_enrollment
\* (0 is NULL).
InvoiceItemClean(inv, course_enrollment, event_registration) ==
  IF inv.invoice_type = "COURSE"
  THEN ~(course_enrollment = 0 \/ event_registration # 0)
  ELSE IF inv.invoice_type = "EVENT"
  THEN ~(event_registration = 0 \/ course_enrollment # 0)
  ELSE TRUE

\* InvoiceItemAdmin, a plain ModelAdmin: the change form of an item is saved
\* with other links. A ValidationError of clean() shows the form again and
\* nothing is stored; else the item is saved with the links.
InvoiceItemAdminChangeLinks(it, course_enrollment, event_registration) ==
  /\ it \in items
  /\ <<course_enrollment, event_registration>> # <<it.course_enrollment, it.event_registration>>
  /\ \E inv \in invoices :
       /\ inv.id = it.invoice
       /\ items' =
            IF InvoiceItemClean(inv, course_enrollment, event_registration)
            THEN (items \ {it}) \cup
                   {[it EXCEPT !.course_enrollment = course_enrollment,
                               !.event_registration = event_registration,
                               !.row = IF course_enrollment # 0 THEN course_enrollment
                                       ELSE event_registration,
                               !.link = IF course_enrollment # 0 THEN "COURSE" ELSE "EVENT"]}
            ELSE items
  /\ UNCHANGED <<status, invoice, fee_amount, submitted, invoices, last_number, envVars,
                 next_id, req, started, handed>>

\* The choices of a link in the form: NULL or a stored row of the table.
LinkChoices(kind) == {0} \cup {r \in Rows : row[r].kind = kind /\ status[r] # "NONE"}

NextLinks ==
  \/ \E kind \in InvoiceTypes, S \in SUBSET Rows : AdminIssueStart("a1", kind, S)
  \/ StepGroup
  \/ \E it \in items, ce \in LinkChoices("COURSE"), er \in LinkChoices("EVENT") :
       InvoiceItemAdminChangeLinks(it, ce, er)

SpecLinks == InitYears /\ [][NextLinks]_vars

\* ------------------------------------------------- the buyer of an invoice
\* OrganizationAdmin, a plain ModelAdmin: the change form saves the name, the
\* VAT number and the national address.
OrganizationAdminChange(o, org) ==
  /\ organizations[o] # org
  /\ organizations' = [organizations EXCEPT ![o] = org]
  /\ UNCHANGED <<dbVars, row, catalog, seller_active, year, students, next_id, req,
                 started, handed>>

\* The values the form is saved with.
OrganizationForms == [name_en : 1..2, vat_number : 0..1, national_address : {0}]

\* The admin issues invoices and, between two runs of the action, changes
\* organizations.
NextBuyer ==
  \/ \E kind \in InvoiceTypes, S \in SUBSET Rows : AdminIssueStart("a1", kind, S)
  \/ StepGroup
  \/ \E o \in Orgs, org \in OrganizationForms :
       ~InFlight("a1") /\ OrganizationAdminChange(o, org)

SpecBuyer == InitYears /\ [][NextBuyer]_vars

\* ================================================================= claims
CommittedIds == {i.id : i \in invoices}
ItemsOf(id) == {it \in items : it.invoice = id}
Holding(p) == req[p].seq_key # NoKey
NothingMessages ==
  {"Nothing to invoice (selected already have invoices).",
   "ValueError: Nothing to invoice."}

\* C1 (as stated): no two committed invoices carry the same number, and every
\* number next_invoice_no hands out in a (type, year) bucket is greater than
\* the numbers it handed out there before, rolled-back callers included.
C1_HandedOutIncreasing ==
  /\ \A i, j \in invoices : i.id # j.id => i.invoice_no # j.invoice_no
  /\ \A a, b \in 1..Len(handed) :
       (a < b /\ handed[a][1] = handed[b][1] /\ handed[a][2] = handed[b][2])
         => handed[a][3] < handed[b][3]

\* C1 (amended): no two committed invoices carry the same number; at any
\* time at most one open transaction holds a number of a bucket, and that
\* number is greater than every committed number of the bucket; the numbers
\* of the invoices that commit increase in the order in which their callers
\* obtained the counter row (the order of the invoice ids).
C1_NumbersUnique ==
  /\ \A i, j \in invoices : i.id # j.id => i.invoice_no # j.invoice_no
  /\ \A i, j \in invoices :
       (BucketOf(i) = BucketOf(j) /\ i.id < j.id) => SeqPart(i) < SeqPart(j)
  /\ \A p \in Procs : Holding(p) =>
       /\ \A q \in Procs \ {p} : req[q].seq_key # req[p].seq_key
       /\ \A i \in invoices : BucketOf(i) = req[p].seq_key => SeqPart(i) < req[p].seq_no

\* C1 witness: two invoices of one bucket are committed with numbers 1 and 2,
\* and a third caller holds number 3 of that bucket.
C1_Witness ==
  \E i, j \in invoices, p \in Procs :
    /\ BucketOf(i) = BucketOf(j) /\ SeqPart(i) = 1 /\ SeqPart(j) = 2
    /\ req[p].seq_key = BucketOf(i) /\ req[p].seq_no = 3

\* C2: every row is billed at most once: over the committed items and the
\* items of the open transactions, at most one references a given row, so no
\* two invoices hold an item for the same row.
C2_BilledOnce ==
  LET all == items \cup UNION {req[p].items : p \in Procs}
  IN  \A r \in Rows : Cardinality({it \in all : it.row = r}) <= 1

\* C2 witness: a transaction has made the item of a row while a second
\* request whose selection holds the same row waits for it.
C2_Witness ==
  \E p \in Procs, q \in Procs :
    /\ p # q
    /\ req[p].pc = "link" /\ req[q].pc \in {"exists", "items"}
    /\ \E it \in req[p].items : it.row \in Head(req[q].todo).rows

\* C4: a call on rows that all carry an invoice already creates nothing: the
\* admin action never passes such a selection on, the issuance function
\* answers "Nothing to invoice" for such a bucket, and a request that ends
\* with "Nothing to invoice" leaves invoices, items, links, the counter and
\* the id sequence as they were.
C4_SecondCallCreatesNothing ==
  [][\A p \in Procs :
       /\ (req[p].pc \notin {"exists", "number", "items", "link"} /\ req'[p].pc = "exists")
            => \E r \in req'[p].sel : invoice[r] = 0
       /\ (req[p].pc = "exists" /\ req'[p] # req[p]
             /\ \A r \in Head(req[p].todo).rows : invoice[r] # 0)
            => req'[p].msg = "ValueError: Nothing to invoice."
       /\ (req'[p] # req[p] /\ req'[p].msg \in NothingMessages)
            => UNCHANGED <<dbVars, next_id>>]_vars

\* C4 witness: the rows of a bucket were invoiced by one call, and a second
\* call on the same bucket has ended with "Nothing to invoice"; one invoice
\* exists.
C4_Witness ==
  \E p \in Procs :
    /\ req[p].msg = "ValueError: Nothing to invoice."
    /\ Cardinality(invoices) = 1
    /\ invoice[1] # 0 /\ invoice[1] = invoice[2]

\* C5 (as stated): the rows an issuance call links to its invoice are exactly
\* the rows it made an item for; every other input row keeps its link.
C5_LinkedAreBilled ==
  [][\A p \in Procs :
       (req[p].pc = "link" /\ req'[p].pc # "link")
         => {r \in Rows : invoice'[r] # invoice[r]} = {it.row : it \in req[p].items}]_vars

\* C10: nothing of a rolled-back attempt is visible: every item and every
\* row link refers to a committed invoice, and the counter of a bucket is
\* the highest number of its committed invoices (0 when it has none).
C10_RollbackLeavesNothing ==
  /\ \A it \in items : it.invoice \in CommittedIds
  /\ \A r \in Rows : invoice[r] # 0 => invoice[r] \in CommittedIds
  /\ \A k \in Keys :
       \A n \in 0..last_number[k] :
         (n = last_number[k]) <=>
           (\A i \in invoices : BucketOf(i) = k => SeqPart(i) <= n)
           /\ (n = 0 \/ \E i \in invoices : BucketOf(i) = k /\ SeqPart(i) = n)

\* C10 witness: an attempt failed on its first item, after its number was
\* handed out and its header written, and an invoice committed later.
C10_Witness ==
  \E p \in Procs :
    /\ req[p].msg = "ValidationError: description"
    /\ Len(handed) >= 2
    /\ handed[1][3] = 1
    /\ invoices # {}
    /\ \A i \in invoices : i.id > 1

C6_RollupEqualsItems ==
  \A inv \in invoices :
    /\ inv.subtotal = SumField(ItemsOf(inv.id), "line_subtotal")
    /\ inv.vat_amount = SumField(ItemsOf(inv.id), "line_vat")
    /\ inv.total = SumField(ItemsOf(inv.id), "line_total")

\* v is num/den rounded to a nearest integer (a nearest cent).
NearestCent(v, num, den) ==
  /\ 2 * (v * den - num) <= den
  /\ 2 * (num - v * den) <= den

\* C7: an EVENT invoice issued for n >= 1 eligible registrations with fee
\* snapshot f has exactly one item per registration, with qty 1, unit_price
\* and line_subtotal f, line_vat f * rate rounded to the cent and line_total
\* their sum; its subtotal is n * f, its vat_amount n * line_vat and its
\* total their sum. With n = 2, f = 100.00 and rate 0.15 the lines are
\* 100.00 / 15.00 / 115.00 and the totals 200.00 / 30.00 / 230.00, and the
\* first invoice of a fresh bucket is numbered EVENT-<year>-000001.
C7_EventInvoiceAmounts ==
  /\ \A p \in Procs : req[p].pc = "link" =>
       {it.row : it \in req[p].items} = Eligible(Head(req[p].todo).rows)
  /\ \A inv \in invoices : inv.invoice_type = "EVENT" =>
       LET its == ItemsOf(inv.id)
           n == Cardinality(its)
       IN  /\ n >= 1
           /\ n = Cardinality({it.row : it \in its})
           /\ {it.row : it \in its} = {r \in Rows : invoice[r] = inv.id}
           /\ \A it \in its :
                /\ row[it.row].kind = "EVENT" /\ it.link = "EVENT"
                /\ it.qty = 1
                /\ it.unit_price = fee_amount[it.row]
                /\ it.line_subtotal = it.unit_price
                /\ NearestCent(it.line_vat, it.line_subtotal * inv.vat_rate, RateScale)
                /\ it.line_total = it.line_subtotal + it.line_vat
                /\ inv.subtotal = n * it.unit_price
                /\ inv.vat_amount = n * it.line_vat
           /\ inv.total = inv.subtotal + inv.vat_amount
           /\ (n = 2 /\ inv.vat_rate = 1500 /\ \A it \in its : it.unit_price = 10000) =>
                /\ \A it \in its :
                     it.line_subtotal = 10000 /\ it.line_vat = 1500 /\ it.line_total = 11500
                /\ inv.subtotal = 20000 /\ inv.vat_amount = 3000 /\ inv.total = 23000
           /\ (\A j \in invoices : j.id >= inv.id) =>
                inv.invoice_no = [type |-> "EVENT", year |-> year, seq |-> <<0, 0, 0, 0, 0, 1>>]

\* C7 witness: the first EVENT invoice of the year is committed for two
\* registrations with fee 100.00: EVENT-<year>-000001, 200.00 / 30.00 / 230.00.
C7_Witness ==
  \E inv \in invoices :
    /\ inv.invoice_type = "EVENT"
    /\ Cardinality(ItemsOf(inv.id)) = 2
    /\ \A it \in ItemsOf(inv.id) : it.unit_price = 10000 /\ it.line_total = 11500
    /\ inv.invoice_no = [type |-> "EVENT", year |-> year, seq |-> <<0, 0, 0, 0, 0, 1>>]
    /\ inv.subtotal = 20000 /\ inv.vat_amount = 3000 /\ inv.total = 23000

\* C8: a run over a selection of k (organization, course|event) buckets that
\* each hold an eligible row creates exactly k invoices: the run counts one
\* bucket per distinct pair, no bucket with an eligible row fails, each
\* committed bucket adds one invoice, and the run ends with as many invoices
\* as buckets. The items of an invoice all belong to the invoice's
\* organization and to one course or event.
C8_OneInvoicePerBucket ==
  /\ [](\A inv \in invoices : \A it1, it2 \in ItemsOf(inv.id) :
          /\ row[it1.row].org = inv.organization
          /\ row[it1.row].target = row[it2.row].target
          /\ row[it1.row].kind = row[it2.row].kind)
  /\ [][\A p \in Procs :
          /\ (~InFlight(p) /\ req'[p].pc = "exists") =>
               req'[p].groups =
                 Cardinality({<<row[r].org, row[r].target>> :
                                r \in {q \in req'[p].sel : invoice[q] = 0}})
          /\ (req[p].pc = "exists" /\ Eligible(Head(req[p].todo).rows) # {}) =>
               req'[p].pc # "failed"
          /\ (req[p].pc = "link" /\ req'[p] # req[p]) =>
               /\ Cardinality(invoices') = Cardinality(invoices) + 1
               /\ req'[p].created = req[p].created + 1
               /\ req'[p].pc = "done" =>
                    /\ req'[p].created = req[p].groups
                    /\ Cardinality(invoices') = req[p].groups]_vars

\* C8 witness: a run over three buckets has ended with three invoices.
C8_Witness ==
  \E p \in Procs :
    /\ req[p].pc = "done" /\ req[p].created = 3
    /\ Cardinality(invoices) = 3
    /\ \A inv \in invoices : Cardinality(ItemsOf(inv.id)) = 1

\* C9 (as stated): when a grouped run ends, with success or with the failure
\* of a bucket, no selected row is left eligible: every bucket of the run that
\* had eligible rows got its invoice.
C9_OtherBucketsInvoiced ==
  [][\A p \in Procs :
       (InFlight(p) /\ req'[p].pc \in {"done", "failed"}) =>
         {r \in req[p].sel : status'[r] = "PENDING_PAYMENT" /\ invoice'[r] = 0} = {}]_vars

\* ------------------------------------------------------------ claims C11..C20
\* The number next_invoice_no has just returned, when a step returned one.
NumberReturned == Len(handed') = Len(handed) + 1
LastReturned == handed'[Len(handed')]

\* C11 (as stated): a number returned to an issuance that failed afterwards
\* (it was returned before, no open request holds it and no invoice carries
\* it) is never returned again to a caller of the same (type, year) bucket.
C11_FailedNumberNeverReturned ==
  [][NumberReturned =>
       ~\E j \in 1..Len(handed) :
          /\ handed[j] = LastReturned
          /\ ~\E p \in Procs : /\ req[p].seq_key = <<handed[j][1], handed[j][2]>>
                               /\ req[p].seq_no = handed[j][3]
          /\ ~\E i \in invoices : i.invoice_no = FormatInvoiceNo(handed[j][1], handed[j][2], handed[j][3])]_vars

\* C11 (amended): a number carried by a committed invoice is never returned
\* again: every number next_invoice_no returns is greater than the sequence
\* part of every committed invoice of its (type, year) bucket.
C11_CommittedNumberNeverReturned ==
  [][NumberReturned =>
       \A i \in invoices :
         BucketOf(i) = <<LastReturned[1], LastReturned[2]>> => SeqPart(i) < LastReturned[3]]_vars

\* C11 witness: a number was returned to an issuance that failed and then
\* again to a later caller of the bucket, whose invoice carries it.
C11_Witness ==
  \E j, k \in 1..Len(handed) :
    /\ j < k /\ handed[j] = handed[k]
    /\ \E i \in invoices : i.invoice_no = FormatInvoiceNo(handed[k][1], handed[k][2], handed[k][3])
    /\ \E p \in Procs : req[p].pc = "failed"

\* C12: for every (invoice_type, year) bucket the sequence parts of the
\* committed invoices are exactly 1..last_number; last_number changes only in
\* the step that commits an invoice, for the counter of the invoice's type
\* and year alone, and by one.
C12_GaplessPerBucket ==
  /\ [](\A key \in Keys :
          {SeqPart(i) : i \in {j \in invoices : BucketOf(j) = key}} = 1..last_number[key])
  /\ [][last_number' # last_number =>
          \E p \in Procs, inv \in invoices' \ invoices :
            /\ req[p].pc = "link"
            /\ invoices' = invoices \cup {inv}
            /\ inv.invoice_type = req[p].kind
            /\ last_number' = [last_number EXCEPT ![BucketOf(inv)] = @ + 1]
            /\ BucketOf(inv)[1] = req[p].kind]_vars

\* C12 witness: an issuance failed after it had obtained a number, which no
\* invoice carries, and invoices of both types are committed, in two years.
C12_Witness ==
  /\ \E j \in 1..Len(handed) :
       ~\E i \in invoices : i.invoice_no = FormatInvoiceNo(handed[j][1], handed[j][2], handed[j][3])
  /\ \E i, j \in invoices : /\ i.invoice_type = "COURSE" /\ j.invoice_type = "EVENT"
                            /\ BucketOf(i)[2] # BucketOf(j)[2]
  /\ \A p \in Procs : ~InFlight(p)

\* The call of the issuance function that request p is in has reached its
\* .exists() test with the rows it was given.
AtExists(p) == req[p].pc = "exists" /\ req'[p] # req[p]
GivenRows(p) == Head(req[p].todo).rows

\* C13: when no row given to the issuance call has status PENDING_PAYMENT and
\* a null invoice link, the call fails with "Nothing to invoice" and changes
\* nothing: no invoice, no item, no link, no counter, no number handed out.
C13_NothingToInvoice ==
  [][\A p \in Procs :
       (AtExists(p) /\ {r \in GivenRows(p) : status[r] = "PENDING_PAYMENT" /\ invoice[r] = 0} = {}) =>
         /\ req'[p].pc = "failed"
         /\ req'[p].msg = "ValueError: Nothing to invoice."
         /\ UNCHANGED <<invoices, items, invoice, last_number, status, fee_amount, next_id, handed>>]_vars

\* C13 witness: a call given rows without invoice, none of them approved, has
\* failed with "Nothing to invoice", and the database is as it was.
C13_Witness ==
  /\ req["a1"].pc = "failed" /\ req["a1"].msg = "ValueError: Nothing to invoice."
  /\ invoices = {} /\ items = {} /\ handed = <<>>
  /\ \A r \in Rows : invoice[r] = 0
  /\ \A key \in Keys : last_number[key] = 0

\* C14: when no CompanyProfile is active, the issuance call for rows of which
\* some are PENDING_PAYMENT without invoice fails with the no-active-seller
\* error and changes nothing: no invoice, no item, no number handed out, no
\* counter changed, and the rows stay PENDING_PAYMENT without invoice.
C14_NoActiveSeller ==
  [][\A p \in Procs :
       LET elig == {r \in GivenRows(p) : status[r] = "PENDING_PAYMENT" /\ invoice[r] = 0}
       IN  (AtExists(p) /\ elig # {} /\ ~seller_active) =>
             /\ req'[p].pc = "failed"
             /\ req'[p].msg = "ValueError: No active CompanyProfile found."
             /\ UNCHANGED <<invoices, items, last_number, next_id, handed>>
             /\ \A r \in elig : status'[r] = "PENDING_PAYMENT" /\ invoice'[r] = 0
             /\ UNCHANGED <<status, invoice, fee_amount>>]_vars

\* C14 witness: with no active seller a call for approved rows has failed
\* with the no-active-seller error; nothing was created or numbered.
C14_Witness ==
  /\ ~seller_active
  /\ req["a1"].pc = "failed" /\ req["a1"].msg = "ValueError: No active CompanyProfile found."
  /\ invoices = {} /\ items = {} /\ handed = <<>>
  /\ \A r \in Rows : status[r] = "PENDING_PAYMENT" /\ invoice[r] = 0
  /\ \A key \in Keys : last_number[key] = 0

\* C15: the committing step of an issuance call links every billed row (a row
\* with an item of the invoice) to the invoice and leaves its status
\* PENDING_PAYMENT and its fee_amount and submission as they were; rows that
\* were not given to the call keep link, status, fee_amount and submission;
\* and no earlier step of the call writes to a row.
C15_FrameOfIssuance ==
  [][\A p \in Procs :
       /\ (req[p].pc = "link" /\ invoices' # invoices /\ req'[p] # req[p]) =>
            LET billed == {it.row : it \in req[p].items}
            IN  /\ billed # {}
                /\ \A r \in billed :
                     /\ invoice'[r] = req[p].inv.id
                     /\ status[r] = "PENDING_PAYMENT" /\ status'[r] = "PENDING_PAYMENT"
                     /\ fee_amount'[r] = fee_amount[r]
                     /\ submitted'[r] = submitted[r]
                /\ \A r \in Rows \ GivenRows(p) :
                     /\ invoice'[r] = invoice[r] /\ status'[r] = status[r]
                     /\ fee_amount'[r] = fee_amount[r] /\ submitted'[r] = submitted[r]
       /\ (req[p].pc \in {"exists", "number", "items"} /\ req'[p] # req[p]) =>
            UNCHANGED <<invoice, status, fee_amount, submitted>>]_vars

\* C15 witness: an invoice with two items is committed, both billed rows are
\* linked to it and PENDING_PAYMENT, and a row outside the call has no invoice.
C15_Witness ==
  \E inv \in invoices :
    /\ Cardinality(ItemsOf(inv.id)) = 2
    /\ \A it \in ItemsOf(inv.id) :
         invoice[it.row] = inv.id /\ status[it.row] = "PENDING_PAYMENT"
    /\ \E r \in Rows : invoice[r] = 0 /\ status[r] = "PENDING_PAYMENT"

RequestOf(u) == \E t \in Targets, S \in SUBSET Rows : PortalRequest(u, t, S)

\* C17 (as stated): no request of an ORG_STAFF user moves a row out of DRAFT.
C17_StaffNeverSubmits ==
  [][\A u \in Users :
       (u.role = "ORG_STAFF" /\ RequestOf(u)) =>
         \A r \in Rows : status[r] = "DRAFT" => status'[r] = "DRAFT"]_vars

\* C18: no portal request of a user changes the status, invoice link,
\* fee_amount or submission of a row of another organization, whatever ids
\* it names, and none changes an invoice, an item or a counter (every step
\* leaves all of these alone or is no request of the user); invoice_detail
\* shows a user no invoice of another organization, whatever id is asked for.
C18_OwnOrganizationOnly ==
  /\ [](\A u \in Users, id \in CommittedIds :
          \A inv \in invoice_detail(u, id) : inv.organization = u.org)
  /\ [][\A u \in Users :
          \/ /\ \A r \in Rows :
                   row[r].org # u.org =>
                     /\ status'[r] = status[r] /\ invoice'[r] = invoice[r]
                     /\ fee_amount'[r] = fee_amount[r] /\ submitted'[r] = submitted[r]
             /\ UNCHANGED <<invoices, items, last_number>>
          \/ ~RequestOf(u)]_vars

\* C18 witness: a row of organization 1 was submitted by a user of
\* organization 1 while organization 2 has an invoiced row, whose invoice
\* invoice_detail shows to the users of organization 2 and to no user of
\* organization 1.
C18_Witness ==
  /\ \E r \in Rows : /\ row[r].org = 1 /\ status[r] = "SUBMITTED"
                     /\ submitted[r] \in Users /\ submitted[r].org = 1
  /\ \E r \in Rows, inv \in invoices :
       /\ row[r].org = 2 /\ invoice[r] = inv.id /\ inv.organization = 2
       /\ \A u \in Users : invoice_detail(u, inv.id) = IF u.org = 2 THEN {inv} ELSE {}

\* C19 (as stated): every row that a portal request moves out of DRAFT has
\* its submission set to the actor of that request.
C19_SubmissionRecorded ==
  [][\A u \in Users :
       RequestOf(u) =>
         \A r \in Rows :
           (status[r] = "DRAFT" /\ status'[r] # "DRAFT") => submitted'[r] = u]_vars

\* C20 (as stated): a row enters PENDING_PAYMENT only from SUBMITTED, and in
\* no step that is a portal request.
C20_PendingOnlyFromSubmitted ==
  [][\A r \in Rows :
       (status[r] # "PENDING_PAYMENT" /\ status'[r] = "PENDING_PAYMENT") =>
         /\ status[r] = "SUBMITTED"
         /\ ~\E u \in Users : RequestOf(u)]_vars

\* ------------------------------------------------------------ claims C21..C30
\* The selected DRAFT registrations of user u's organization for event t.
DraftRegs(u, t, S) == {r \in OwnRowsOf(u, "EVENT", t, S) : status[r] = "DRAFT"}

\* C21 (as stated): whenever a manager has a DRAFT registration of an event
\* to select, the competition_submit_final request commits: the selected
\* DRAFT rows become PENDING_PAYMENT, submitted by the manager, and are
\* linked to one new EVENT invoice.
C21_ManagerSubmitIssues ==
  \A u \in Users, t \in Targets, S \in SUBSET Rows :
    (is_manager(u) /\ DraftRegs(u, t, S) # {}) =>
      ENABLED (/\ competition_submit_final(u, t, S)
               /\ \E inv \in invoices' \ invoices :
                    /\ inv.invoice_type = "EVENT"
                    /\ invoices' = invoices \cup {inv}
                    /\ \A r \in DraftRegs(u, t, S) :
                         /\ status'[r] = "PENDING_PAYMENT"
                         /\ submitted'[r] = u
                         /\ invoice'[r] = inv.id)

\* C22 (as stated): an EventRegistration becomes PAID only from
\* PENDING_PAYMENT and only when it is linked to an invoice.
C22_PaidOnlyWhenInvoiced ==
  [][\A r \in Rows :
       (row[r].kind = "EVENT" /\ status[r] # "PAID" /\ status'[r] = "PAID") =>
         /\ status[r] = "PENDING_PAYMENT"
         /\ invoice[r] # 0]_vars

\* The selected rows of user u's organization for course or event t that a
\* re-registration should reset.
Resettable(u, kind, t, S) ==
  {r \in OwnRowsOf(u, kind, t, S) :
     status[r] \in (IF kind = "COURSE" THEN {"REJECTED", "DROPPED"} ELSE {"REJECTED"})}

\* C23 (as stated): whenever a user re-registers students whose enrollment is
\* REJECTED or DROPPED, or whose registration is REJECTED, the request resets
\* those rows to DRAFT, for enrollments and for registrations alike.
C23_ReregistrationResets ==
  \A u \in Users, t \in Targets, S \in SUBSET Rows :
    /\ Resettable(u, "COURSE", t, S) # {} =>
         ENABLED (/\ course_register_confirm(u, t, S)
                  /\ \A r \in Resettable(u, "COURSE", t, S) : status'[r] = "DRAFT")
    /\ Resettable(u, "EVENT", t, S) # {} =>
         ENABLED (/\ competition_register_confirm(u, t, S)
                  /\ \A r \in Resettable(u, "EVENT", t, S) : status'[r] = "DRAFT")

\* C24 (as stated): a REJECTED or DROPPED row that re-registration resets to
\* DRAFT has its submission and its invoice link cleared.
C24_ResetClearsAll ==
  [][\A r \in Rows :
       (status[r] \in {"REJECTED", "DROPPED"} /\ status'[r] = "DRAFT") =>
         /\ submitted'[r] = NoUser
         /\ invoice'[r] = 0]_vars

\* The stored rows, committed or not.
Stored == {r \in Rows : status[r] # "NONE"}

\* C25: in every state, also while register requests for the same student run
\* concurrently, no two stored rows are CourseEnrollments of the same
\* (student, course) or EventRegistrations of the same (event, student); an
\* INSERT of a second one is rejected.
C25_UniquePerStudent ==
  \A r1, r2 \in Stored :
    (/\ row[r1].kind = row[r2].kind
     /\ row[r1].student = row[r2].student
     /\ row[r1].target = row[r2].target) => r1 = r2

\* A request is about to INSERT a row whose (student, course) is stored and
\* committed: the duplicate insert the constraint rejects.
C25_Witness ==
  \E p \in Procs :
    /\ req[p].pc = "create"
    /\ \E r \in UniqueClash(p) : Visible(p, r)

\* C26 (as stated): in every state the organization of every stored
\* EventRegistration, and of every CourseEnrollment a portal request
\* created, is the organization of its student.
C26_OrganizationOfStudent ==
  \A r \in Stored : row[r].org = students[row[r].student].org

\* C27: a step that stores a new DRAFT EventRegistration is for an event of
\* status OPEN whose deadline is NULL or not passed, and a step that stores a
\* new DRAFT CourseEnrollment is for an active course; so a request for a
\* CLOSED or past-deadline event or an inactive course stores no row.
C27_CreatedOnlyWhenOpen ==
  [][\A r \in Rows :
       (status[r] = "NONE" /\ status'[r] = "DRAFT") =>
         LET c == catalog[<<row'[r].kind, row'[r].target>>]
         IN  IF row'[r].kind = "EVENT"
             THEN c.status = "OPEN" /\ ~(c.deadline # NoDeadline /\ c.deadline < year)
             ELSE c.is_active]_vars

\* A registration was created for an event with a deadline that has not
\* passed, and another student's course or event is closed, past its
\* deadline or inactive and the student has no row.
C27_Witness ==
  /\ \E r \in Rows :
       /\ row[r].kind = "EVENT"
       /\ status[r] = "DRAFT"
       /\ catalog[<<"EVENT", row[r].target>>].deadline = year
  /\ \E r \in Rows :
       /\ status[r] = "NONE"
       /\ ~Registrable(row[r].kind, row[r].target)

\* The counters assigned so far to students of year yr, in order.
AssignedIn(yr) == SelectSeq(handed, LAMBDA h : h[1] = "STUDENT" /\ h[2] = yr)

\* C28 (as stated): the k-th student created in a year gets the counter k,
\* whatever was deleted in between, so no counter is assigned twice.
C28_SequentialPerYear ==
  \A yr \in Years : \A k \in 1..Len(AssignedIn(yr)) : AssignedIn(yr)[k][3] = k

\* C28 (amended): as long as every student created so far is still stored,
\* the k-th student created in a year gets the counter k.
C28_SequentialWithoutDeletion ==
  (Cardinality({s \in StudentIds : students[s] # NoStudent}) = Len(handed)) =>
    \A yr \in Years : \A k \in 1..Len(AssignedIn(yr)) : AssignedIn(yr)[k][3] = k

\* Two students were created in the first year and one in the next, all
\* still stored.
C28_Witness ==
  /\ Cardinality({s \in StudentIds : students[s] # NoStudent}) = Len(handed)
  /\ Len(AssignedIn(0)) >= 2
  /\ Len(AssignedIn(1)) >= 1

\* C29: in every interleaving of concurrent creations no two stored students
\* carry the same registration number, and no step (a wizard edit included)
\* changes the number of a stored student.
C29_UniqueAndPermanent ==
  /\ [](\A s1, s2 \in StudentIds :
          (/\ students[s1] # NoStudent
           /\ students[s2] # NoStudent
           /\ students[s1].no = students[s2].no) => s1 = s2)
  /\ [][\A s \in StudentIds :
          (students[s] # NoStudent /\ students'[s] # NoStudent) =>
            students'[s].no = students[s].no]_vars

\* A creation is about to insert a number that a concurrent creation has
\* stored meanwhile, and a student the wizard edited is stored.
C29_Witness ==
  /\ \E p \in Procs : req[p].pc = "insert" /\ NumberTaken(req[p].no)
  /\ \E s \in StudentIds : students[s] # NoStudent /\ students[s].level = 2

\* C30: every stored InvoiceItem has exactly one of course_enrollment and
\* event_registration, the one of its invoice's type; a save that would
\* store another combination stores nothing.
C30_OneMatchingLink ==
  \A it \in items : \E inv \in invoices :
    /\ inv.id = it.invoice
    /\ (it.course_enrollment # 0) # (it.event_registration # 0)
    /\ (inv.invoice_type = "COURSE") = (it.course_enrollment # 0)
    /\ (inv.invoice_type = "EVENT") = (it.event_registration # 0)

\* A COURSE and an EVENT invoice have items, and the admin has saved the
\* item of the EVENT invoice with another registration.
C30_Witness ==
  /\ \E it \in items : it.course_enrollment # 0
  /\ \E it \in items : it.event_registration # 0 /\ invoice[it.event_registration] # it.invoice


\* --------------------------------------------- who runs the admin's actions
\* The users of the admin site: is_superuser and role (User.role).
AdminSiteUsers == [is_superuser : BOOLEAN, role : {"ADMIN", "ORG_MANAGER"}]

\* Mutant of is_admin_user: every user of the admin site passes.
is_admin_user_any(u) == TRUE

\* def is_admin_user(u): u.is_superuser or role == "ADMIN"
is_admin_user(u) == u.is_superuser \/ u.role = "ADMIN"

\* self.message_user(request, "Admins only.", level=messages.ERROR); return
AdminsOnly(p) ==
  /\ ~InFlight(p)
  /\ req' = [req EXCEPT ![p] = [IdleReq EXCEPT !.pc = "done", !.msg = "Admins only."]]
  /\ UNCHANGED <<dbVars, envVars, next_id, started, handed>>

\* CourseEnrollmentAdmin.issue_course_invoice, from its first statement.
issue_course_invoice(p, u, S) ==
  /\ S # {} /\ \A r \in S : row[r].kind = "COURSE" /\ status[r] # "NONE"
  /\ IF is_admin_user(u) THEN AdminIssueStart(p, "COURSE", S) ELSE AdminsOnly(p)

\* EventRegistrationAdmin.issue_event_invoice, from its first statement.
issue_event_invoice(p, u, S) ==
  /\ S # {} /\ \A r \in S : row[r].kind = "EVENT" /\ status[r] # "NONE"
  /\ IF is_admin_user(u) THEN AdminIssueStart(p, "EVENT", S) ELSE AdminsOnly(p)

\* EventRegistrationAdmin.mark_as_paid, from its first statement.
EventRegistrationAdmin_mark_as_paid(p, u, S) ==
  /\ ~InFlight(p)
  /\ S # {} /\ \A r \in S : row[r].kind = "EVENT" /\ status[r] # "NONE"
  /\ IF is_admin_user(u) THEN mark_as_paid(S) ELSE AdminsOnly(p)

\* Mutant of IssuedOnly: the UPDATE has lost filter(status="ISSUED").
IssuedOnlyAny(inv) == TRUE

\* queryset.filter(status="ISSUED")
IssuedOnly(inv) == inv.status = "ISSUED"

\* InvoiceAdmin.mark_paid after the check of the user: now = timezone.now()
\* (its year); queryset.filter(status="ISSUED").update(status="PAID",
\* paid_at=now) on the invoices with the selected ids.
mark_paid(ids) ==
  LET hit == {inv \in invoices : inv.id \in ids /\ IssuedOnly(inv)}
  IN  /\ hit # {}
      /\ invoices' = (invoices \ hit) \cup
                       {[inv EXCEPT !.status = "PAID", !.paid_at = year] : inv \in hit}
      /\ UNCHANGED <<status, invoice, fee_amount, submitted, items, last_number,
                     envVars, next_id, req, started, handed>>

\* InvoiceAdmin.mark_paid, from its first statement.
InvoiceAdmin_mark_paid(p, u, ids) ==
  /\ ~InFlight(p)
  /\ ids # {} /\ ids \subseteq {inv.id : inv \in invoices}
  /\ IF is_admin_user(u) THEN mark_paid(ids) ELSE AdminsOnly(p)

\* Approved rows of both types, one admin-site session with one request at
\* a time: any user of the admin site runs the issue actions on any
\* selection, mark_as_paid on the last registration and mark_paid on
\* selections among the first two invoices, over the change of the year.
NextAdmin ==
  \/ \E u \in AdminSiteUsers, S \in SUBSET Rows : issue_course_invoice("a1", u, S)
  \/ \E u \in AdminSiteUsers, S \in SUBSET Rows : issue_event_invoice("a1", u, S)
  \/ StepGroup
  \/ \E u \in AdminSiteUsers, S \in SUBSET {NRows} : EventRegistrationAdmin_mark_as_paid("a1", u, S)
  \/ \E u \in AdminSiteUsers, ids \in SUBSET {1, 2} : InvoiceAdmin_mark_paid("a1", u, ids)
  \/ NewYear

SpecAdmin == InitYears /\ [][NextAdmin]_vars

C32_LinksMatchItems ==
  \A inv \in invoices :
    LET its == {it \in items : it.invoice = inv.id}
    IN  /\ {r \in Rows : invoice[r] = inv.id} = {it.row : it \in its}
        /\ \A it1, it2 \in its : it1.row = it2.row => it1 = it2

C34_AdminsOnly ==
  \A u \in AdminSiteUsers : (~u.is_superuser /\ u.role # "ADMIN") =>
    LET Refused == /\ req'["a1"].msg = "Admins only."
                   /\ UNCHANGED <<dbVars, next_id, handed>>
    IN  /\ \A S \in SUBSET Rows :
             /\ ~ENABLED (issue_course_invoice("a1", u, S) /\ ~Refused)
             /\ ~ENABLED (issue_event_invoice("a1", u, S) /\ ~Refused)
             /\ ~ENABLED (EventRegistrationAdmin_mark_as_paid("a1", u, S) /\ ~Refused)
        /\ \A ids \in SUBSET (1..MaxRequests) :
             ~ENABLED (InvoiceAdmin_mark_paid("a1", u, ids) /\ ~Refused)

\* A manager with access to the admin site has been told "Admins only."
\* while an ISSUED invoice, an approved registration without invoice and an
\* approved registration with an invoice are there for the actions to act on.
C34_Witness ==
  /\ req["a1"].msg = "Admins only."
  /\ \E inv \in invoices : inv.status = "ISSUED"
  /\ \E r \in Rows : status[r] = "PENDING_PAYMENT" /\ invoice[r] = 0
  /\ \E r \in Rows : status[r] = "PENDING_PAYMENT" /\ invoice[r] # 0 /\ row[r].kind = "EVENT"

\* C38: a step that changes a committed invoice takes it from ISSUED to PAID
\* and sets paid_at, and nothing else of it: an invoice that is not ISSUED
\* stays as it is (none goes back to ISSUED), number and totals stay, no
\* invoice disappears, and the step changes no item, no link and no status
\* of a registration or enrollment.
C38_MarkPaidFrame ==
  [][/\ \A old \in invoices : \E new \in invoices' :
          /\ new.id = old.id
          /\ \/ new = old
             \/ /\ old.status = "ISSUED"
                /\ new = [old EXCEPT !.status = "PAID", !.paid_at = year]
     /\ (\E old \in invoices : old \notin invoices') =>
          (items' = items /\ invoice' = invoice /\ status' = status)]_vars

\* An invoice was marked PAID in an earlier year and its rows are still
\* PENDING_PAYMENT; another invoice is ISSUED.
C38_Witness ==
  /\ \E inv \in invoices :
       /\ inv.status = "PAID" /\ inv.paid_at # NotPaid /\ inv.paid_at < year
       /\ \E r \in Rows : invoice[r] = inv.id /\ status[r] = "PENDING_PAYMENT"
       /\ \E it \in items : it.invoice = inv.id
  /\ \E inv \in invoices : inv.status = "ISSUED"

\* C35: every committed invoice has at least one item, under every
\* interleaving of issuance requests on overlapping selections; and a request
\* that finds none of its rows eligible (a racing request has invoiced them
\* all) ends with an error in that step, with no invoice added and no number
\* handed out or saved.
C35_NoEmptyInvoice ==
  /\ [](\A inv \in invoices : \E it \in items : it.invoice = inv.id)
  /\ [][\A p \in Procs :
          (/\ req[p].pc = "exists"
           /\ Eligible(Head(req[p].todo).rows) = {}
           /\ req'[p] # req[p]) =>
            (/\ req'[p].pc = "failed"
             /\ invoices' = invoices /\ items' = items
             /\ last_number' = last_number /\ handed' = handed)]_vars

\* One request has committed an invoice for rows the other had selected too,
\* and the other has ended with "Nothing to invoice": one number was handed
\* out, for the one invoice.
C35_Witness ==
  \E p, q \in Procs :
    /\ req[p].msg = "ValueError: Nothing to invoice."
    /\ req[q].pc = "done" /\ req[q].created = 1
    /\ Cardinality(invoices) = 1 /\ Len(handed) = 1
    /\ \E r \in Rows : invoice[r] # 0
    /\ \A r \in Rows : status[r] = "PENDING_PAYMENT" => invoice[r] # 0

\* The step changes exactly the rows D: each leaves DRAFT, and every other
\* row keeps its status, submission, fee and invoice link.
SubmitFrame(D) ==
  \A r \in Rows :
    IF r \in D
    THEN status[r] = "DRAFT" /\ status'[r] # "DRAFT"
    ELSE /\ status'[r] = status[r] /\ submitted'[r] = submitted[r]
         /\ fee_amount'[r] = fee_amount[r] /\ invoice'[r] = invoice[r]

\* The selected DRAFT enrollments of user u's organization for course t.
DraftEnrollments(u, t, S) == {r \in OwnRowsOf(u, "COURSE", t, S) : status[r] = "DRAFT"}

\* The course endpoints' part of C36: course_submit, course_submit_final and
\* course_enrollment_submit_selected change exactly the DRAFT rows of the
\* user's organization (and the chosen course) among the selected ones.
CourseSubmitFrame ==
  \A u \in Users, t \in Targets, S \in SUBSET Rows :
    LET DS == {r \in OwnRows(u, S) : row[r].kind = "COURSE" /\ status[r] = "DRAFT"}
    IN  /\ ~ENABLED (course_submit(u, t) /\ ~SubmitFrame(DraftEnrollments(u, t, Rows)))
        /\ ~ENABLED (course_submit_final(u, t, S) /\ ~SubmitFrame(DraftEnrollments(u, t, S)))
        /\ ~ENABLED (course_enrollment_submit_selected(u, S) /\ ~SubmitFrame(DS))
        /\ (is_manager(u) /\ DraftEnrollments(u, t, Rows) # {}) => ENABLED course_submit(u, t)
        /\ (is_manager(u) /\ DraftEnrollments(u, t, S) # {}) => ENABLED course_submit_final(u, t, S)
        /\ DS # {} => ENABLED course_enrollment_submit_selected(u, S)

\* C36 (as stated): a submit request changes exactly the selected rows that
\* are DRAFT, of the actor's organization and of the chosen course or event,
\* and leaves every other row as it was: so do the three course endpoints,
\* and a manager's competition_submit_final that names DRAFT registrations
\* takes a step in which exactly these leave DRAFT.
C36_SubmitChangesDrafts ==
  /\ CourseSubmitFrame
  /\ \A u \in Users, t \in Targets, S \in SUBSET Rows :
       /\ ~ENABLED (competition_submit_final(u, t, S) /\ ~SubmitFrame(DraftRegs(u, t, S)))
       /\ (is_manager(u) /\ DraftRegs(u, t, S) # {}) =>
            ENABLED (competition_submit_final(u, t, S) /\ SubmitFrame(DraftRegs(u, t, S)))

\* Row r is kept by the step: status, submission, fee and invoice link.
RowKept(r) ==
  /\ status'[r] = status[r] /\ submitted'[r] = submitted[r]
  /\ fee_amount'[r] = fee_amount[r] /\ invoice'[r] = invoice[r]

\* C37: a step of course_register_confirm or competition_register_confirm
\* keeps every stored row whose status is not REJECTED or DROPPED (status,
\* submission, fee_amount, invoice link), whether selected or not, and after
\* the step the same request changes nothing: it is not enabled again.
C37_ReregistrationIdempotent ==
  [][\A u \in Users, t \in Targets, S \in SUBSET Rows :
       /\ course_register_confirm(u, t, S) =>
            /\ \A r \in Rows : status[r] \notin {"NONE", "REJECTED", "DROPPED"} => RowKept(r)
            /\ ~(ENABLED course_register_confirm(u, t, S))'
       /\ competition_register_confirm(u, t, S) =>
            /\ \A r \in Rows : status[r] \notin {"NONE", "REJECTED", "DROPPED"} => RowKept(r)
            /\ ~(ENABLED competition_register_confirm(u, t, S))']_vars

\* The invoiced enrollment of organization 2 was rejected and registered
\* again (a DRAFT with its invoice) while the enrollment and the registration
\* of organization 1 were stored and not rejected.
C37_Witness ==
  /\ status[2] = "DRAFT" /\ invoice[2] # 0
  /\ status[1] \in {"SUBMITTED", "PENDING_PAYMENT"}
  /\ status[NRows] \in {"DRAFT", "PENDING_PAYMENT"}

\* Request p is in a cycle of transactions that wait for each other's locks.
Deadlocked(p) == InFlight(p) /\ p \in WaitsForWithin(p, Cardinality(Procs))

\* Under fair scheduling every request that is running eventually ends, with
\* a commit or with an error.
AllComplete == \A p \in Procs : InFlight(p) ~> ~InFlight(p)

\* C39 (as stated): under fair scheduling every running request eventually
\* completes, and no two requests ever deadlock: no request is in a cycle of
\* requests waiting for the row locks and the counter row lock of each other.
C39_NoDeadlock ==
  /\ [](\A p \in Procs : ~Deadlocked(p))
  /\ AllComplete

====
